---------------------------- MODULE Spec2Model ----------------------------
(***************************************************************************)
(* Model of the surveillance server, src/server/index.js (the second,      *)
(* current program of that file, lines 119-1228): the TCP ingest decoder,  *)
(* the storage queue and its worker, the index (DB insert) queue, and the  *)
(* playback sessions.                                                      *)
(*                                                                         *)
(* Node.js runs every callback to completion; an async function gives up   *)
(* control only at an await of real I/O or of a timer.  Every action below *)
(* is one such run: from the event (or the resumption after an await) to   *)
(* the next await or to the end of the callback.                           *)
(***************************************************************************)
EXTENDS Integers, Sequences, FiniteSets, TLC

\* JavaScript null, for variables that otherwise hold an object
Null == [isNull |-> TRUE]

(***************************************************************************)
(* Bounds of the model.  The queue capacities and page sizes of the        *)
(* program are scaled down (the program's values are named in the          *)
(* comments); every formula below is stated in terms of the names.         *)
(***************************************************************************)
MaxUnits == 2            \* wire units sent on one camera connection
MaxPayload == 2          \* largest metadata.size of a unit

MaxFrames == 3           \* frames that arrive at the server in one run
MaxRetryTimers == 2      \* retry timers pending at the same time

\* index.js:135  STORAGE_QUEUE_MAX = 80, scaled
STORAGE_QUEUE_MAX == 2
\* index.js:133  DB_BATCH_SIZE = 30, scaled
DB_BATCH_SIZE == 2
\* index.js:188  connectionLimit
POOL_LIMIT == 5
\* index.js:138  PLAYBACK_BATCH_SIZE = 200, scaled
PLAYBACK_BATCH_SIZE == 2
\* index.js:139  PLAYBACK_QUEUE_HIGH = 10, scaled: above the low watermark and
\* below the low watermark plus a page, as 3 < 10 < 3 + 200
PLAYBACK_QUEUE_HIGH == 2
\* index.js:140  PLAYBACK_QUEUE_LOW = 3, scaled
PLAYBACK_QUEUE_LOW == 1
\* index.js:1067  MAX_CONSECUTIVE_ERRORS = 20, scaled
MAX_CONSECUTIVE_ERRORS == 2
\* index.js:1203  consecutiveErrors % 5
FRAME_MISSING_EVERY == 5

(***************************************************************************)
(* ------------------------- TCP ingest: decoder ------------------------ *)
(***************************************************************************)
VARIABLES
    wire,                \* bytes the camera has sent that are still in flight
    units,               \* the wire units the camera sent (history, never read by the program)
    peer,                \* a second camera connection: its closure's variables, and its history
    sawPartial,          \* history: some delivery ended in the middle of a unit
    buffer,              \* index.js:467
    waitingForMetadata,  \* index.js:468
    metadataLength,      \* index.js:469
    metadata,            \* index.js:470
    frameCount,          \* index.js:471
    crashed,             \* the process was ended by an exception no handler caught
    broadcasts,          \* calls of broadcastFrameBinary, in order
    liveSent,            \* per viewer connection: the live frames sent to it, in order
    storageQueue,        \* index.js:430
    enqResult,           \* outcome of the last storage enqueue attempt (log line or HTTP status)
    clock,               \* frames that have arrived so far; the next capture timestamp (history)
    isStorageProcessing, \* index.js:431
    curTask,             \* the task whose fs.writeFile is awaited (index.js:440-444), or Null
    totalFilesSaved,     \* index.js:432
    blobStore,           \* the files written under BMP_FOLDER
    dbInsertQueue,       \* index.js:373
    dbFlushTimer,        \* index.js:374: TRUE when the variable holds a timer id
    flushTimers,         \* the timers of index.js:383 that are set and have neither fired nor been cleared
    retryTimers,         \* pending timers of index.js:423
    flights,             \* the flushDbBatch calls suspended at an await, oldest first
    poolOut,             \* connections checked out of the pool (index.js:183)
    tbIndex,             \* the rows of tb_index, in insertion order
    totalDbInserts,      \* index.js:375
    handedOver,          \* history: the Index Tasks emitted at index.js:448, in order
    failedOnce,          \* history: the timestamps of the records of failed bulk inserts
    playbackSessions,    \* index.js:228: camNo -> session (0: no entry)
    sess,                \* the session objects ever created (index.js:262-279), each with
                         \* the closure variables and the positions of its async functions
    activeSession,       \* index.js:234, per viewer connection (0: null)
    wsOpen,              \* per viewer connection: readyState === 1
    closeHandled,        \* per viewer connection: the 'close' event has been dispatched
    wsErrors             \* per viewer connection: the 'error' events sent to it, in order

decVars == <<wire, units, peer, sawPartial, buffer, waitingForMetadata, metadataLength,
             metadata, frameCount>>
procVars == <<crashed>>
ingVars == <<broadcasts, liveSent, storageQueue, enqResult, clock>>
stoVars == <<isStorageProcessing, curTask, totalFilesSaved, blobStore>>
extVars == <<poolOut, tbIndex>>
histVars == <<handedOver, failedOnce>>
pbVars == <<playbackSessions, sess, activeSession, wsOpen, closeHandled, wsErrors>>
dbVars == <<dbInsertQueue, dbFlushTimer, flushTimers, retryTimers, flights,
            totalDbInserts>>
\* what playback leaves alone
otherVars == <<procVars, decVars, ingVars, stoVars, dbVars, histVars>>

\* Sequences over S of length lo..hi
SeqsOf(S, lo, hi) == UNION {[1..n -> S] : n \in lo..hi}

RECURSIVE Concat(_)
Concat(ss) == IF ss = <<>> THEN <<>> ELSE Head(ss) \o Concat(Tail(ss))

Drop(s, k) == SubSeq(s, k + 1, Len(s))
Take(s, k) == SubSeq(s, 1, k)

\* Buffer.readUInt32BE(0)
readUInt32BE(b) == b[1] * 16777216 + b[2] * 65536 + b[3] * 256 + b[4]

\* the camera's 4-byte big-endian length prefix
writeUInt32BE(n) ==
    << (n \div 16777216) % 256, (n \div 65536) % 256, (n \div 256) % 256, n % 256 >>

(***************************************************************************)
(* The JSON metadata object {camNo, timestamp, size, filename}.  Its       *)
(* serialisation is modelled field by field: one element each for camNo,   *)
(* timestamp and size, then the elements of the filename, so that the      *)
(* length of the metadata varies from unit to unit as it does on the wire. *)
(***************************************************************************)
JSONstringify(m) == <<m.camNo, m.timestamp, m.size>> \o m.filename

\* the value of a property the object does not have; JSON.stringify leaves the
\* key out, the model writes Undefined in its place
Undefined == 0 - 1

\* an element that the serialisation of no value holds: a syntax error
Garbage == 255

\* index.js:491  JSON.parse returns for these bytes; otherwise it throws SyntaxError
ValidJSON(bytes) == Len(bytes) >= 3 /\ \A i \in 1..Len(bytes) : bytes[i] # Garbage

JSONparse(bytes) ==
    [camNo |-> bytes[1], timestamp |-> bytes[2], size |-> bytes[3],
     filename |-> Drop(bytes, 3)]

\* one wire unit: [4-byte BE length][JSON metadata][metadata.size payload bytes]
WireUnit(u) ==
    LET json == JSONstringify(u.meta)
    IN  writeUInt32BE(Len(json)) \o json \o u.image


\* The payload is opaque to the program; byte j of the i-th unit is 16*i + j,
\* so that every byte of every payload is told apart from every other.
PayloadOf(i, n) == [j \in 1..n |-> 16 * i + j]

\* variant of TcpHasRoom with <= for <
TcpHasRoomOffByOne(q) == Len(q) <= STORAGE_QUEUE_MAX
\* index.js:506  storageQueue.length < STORAGE_QUEUE_MAX
TcpHasRoom(q) == Len(q) < STORAGE_QUEUE_MAX

\* index.js:507-512  the Storage Task of a decoded frame
TcpTask(meta, image) ==
    [camNo |-> meta.camNo, filename |-> meta.filename,
     timestamp |-> meta.timestamp, imageBuffer |-> image]

\* variant of TcpEnqueue with unshift for push
TcpEnqueueAtFront(q, task) == IF TcpHasRoom(q) THEN <<task>> \o q ELSE q
\* index.js:506-515  push, or drop with a warning
TcpEnqueue(q, task) == IF TcpHasRoom(q) THEN Append(q, task) ELSE q

\* variant of PayloadReady with > for >=
PayloadReadyStrict(buf, meta) == meta.size # Undefined /\ Len(buf) > meta.size
\* index.js:496  buffer.length >= metadata.size; a comparison with undefined is false
PayloadReady(buf, meta) == meta.size # Undefined /\ Len(buf) >= meta.size

(***************************************************************************)
(* The while(true) loop of socket.on('data'), index.js:479-539, on a       *)
(* record st of the connection's decode state; st.out collects the frames  *)
(* of the passes through the frame branch (index.js:496-535), in order.    *)
(* JSON.parse (index.js:491) is inside no try: when it throws, the handler *)
(* ends there, with the assignments made so far, and st.threw is set.      *)
(***************************************************************************)
RECURSIVE DecodeLoop(_)
DecodeLoop(st) ==
    IF st.waitingForMetadata /\ Len(st.buffer) < 4
    THEN st                                                   \* :482 break
    ELSE
      LET s1 == IF st.waitingForMetadata
                THEN [st EXCEPT !.metadataLength = readUInt32BE(st.buffer),   \* :483
                                !.buffer = Drop(st.buffer, 4),                \* :484
                                !.waitingForMetadata = FALSE]                 \* :485
                ELSE st
          parses == s1.metadata = Null /\ Len(s1.buffer) >= s1.metadataLength  \* :489
          s2 == IF parses /\ ValidJSON(Take(s1.buffer, s1.metadataLength))
                THEN [s1 EXCEPT !.metadata =
                                    JSONparse(Take(s1.buffer, s1.metadataLength)),
                                !.buffer = Drop(s1.buffer, s1.metadataLength)]
                ELSE s1
      IN  IF parses /\ ~ValidJSON(Take(s1.buffer, s1.metadataLength))
          THEN [s1 EXCEPT !.threw = TRUE]                                     \* :491 throws
          ELSE
          IF s2.metadata # Null /\ PayloadReady(s2.buffer, s2.metadata)       \* :496
          THEN DecodeLoop(
                 [s2 EXCEPT !.out = Append(s2.out,
                                [meta |-> s2.metadata,
                                 image |-> Take(s2.buffer, s2.metadata.size)]), \* :497
                            !.buffer = Drop(s2.buffer, s2.metadata.size),       \* :498
                            !.frameCount = s2.frameCount + 1,                   \* :500
                            !.waitingForMetadata = TRUE,                        \* :533
                            !.metadataLength = 0,                               \* :534
                            !.metadata = Null])                                 \* :535
          ELSE s2                                                               \* :537 break

\* variant of BroadcastCalls for a broadcast placed inside the test for room
BroadcastCallsWhenRoom(out) ==
    IF TcpHasRoom(storageQueue)
    THEN [i \in 1..Len(out) |->
            [camNo |-> out[i].meta.camNo, timestamp |-> out[i].meta.timestamp,
             image |-> out[i].image]]
    ELSE <<>>
\* the broadcast calls of the frames of one delivery (index.js:503)
BroadcastCalls(out) ==
    [i \in 1..Len(out) |->
        [camNo |-> out[i].meta.camNo, timestamp |-> out[i].meta.timestamp,
         image |-> out[i].image]]

(***************************************************************************)
(* The outbound frame message (index.js:358-362, :1136-1144).  The header  *)
(* JSON.stringify({camNo, timestamp, type}) is modelled with one element   *)
(* each for camNo and timestamp and with the characters of the type, so    *)
(* that headers differ in length.                                          *)
(***************************************************************************)
\* variant of EncodeFrame that writes the length of the whole message
EncodeFrameTotalLength(h, image) ==
    LET header == <<h.camNo, h.timestamp>> \o
                  (IF h.type = "live" THEN <<108, 105, 118, 101>>
                   ELSE <<112, 108, 97, 121, 98, 97, 99, 107>>)
    IN  writeUInt32BE(4 + Len(header) + Len(image)) \o header \o image
\* Buffer.concat([headerLength, headerBuffer, imageBuffer])
EncodeFrame(h, image) ==
    LET header == <<h.camNo, h.timestamp>> \o                           \* JSON.stringify
                  (IF h.type = "live" THEN <<108, 105, 118, 101>>       \* 'live'
                   ELSE <<112, 108, 97, 121, 98, 97, 99, 107>>)         \* 'playback'
    IN  writeUInt32BE(Len(header)) \o header \o image                   \* writeUInt32BE(headerBuffer.length, 0)

\* index.js:358-362  the message of a live frame
LiveFrame(call) ==
    EncodeFrame([camNo |-> call.camNo, timestamp |-> call.timestamp, type |-> "live"],
                call.image)

\* wss.clients: the viewer connections whose close event has not been handled
Clients == {c \in DOMAIN closeHandled : ~closeHandled[c]}

\* variant of ReadyToSend for a broadcast that does not look at readyState
SendsToAll(c) == TRUE
\* index.js:365  client.readyState === 1
ReadyToSend(c) == wsOpen[c]

\* broadcastFrameBinary, index.js:355-369: sent is the frames sent so far per connection
BroadcastFrameBinary(sent, call) ==
    IF Clients = {} THEN sent                                          \* :356
    ELSE LET payload == LiveFrame(call)                                \* :358-362
         IN  [c \in DOMAIN sent |->
                 IF c \in Clients /\ ReadyToSend(c)                     \* :364-365
                 THEN Append(sent[c], payload)                         \* :366
                 ELSE sent[c]]

\* the broadcasts of the frames of one delivery, in order
RECURSIVE BroadcastAll(_, _)
BroadcastAll(sent, calls) ==
    IF calls = <<>> THEN sent
    ELSE BroadcastAll(BroadcastFrameBinary(sent, Head(calls)), Tail(calls))

\* the storage enqueues of the frames of one delivery, in order (index.js:506-515)
RECURSIVE EnqueueAll(_, _)
EnqueueAll(q, out) ==
    IF out = <<>> THEN q
    ELSE EnqueueAll(TcpEnqueue(q, TcpTask(Head(out).meta, Head(out).image)), Tail(out))

\* the outcome of the last enqueue attempt of a delivery
RECURSIVE LastEnqResult(_, _, _)
LastEnqResult(q, out, r) ==
    IF out = <<>> THEN r
    ELSE LastEnqResult(TcpEnqueue(q, TcpTask(Head(out).meta, Head(out).image)),
                       Tail(out),
                       IF TcpHasRoom(q) THEN "queued" ELSE "dropped-warn")

(***************************************************************************)
(* socket.on('data'), index.js:475-540, run on the delivery `data`: the    *)
(* decode loop, and for each decoded frame the broadcast and the storage   *)
(* enqueue.                                                                *)
(***************************************************************************)
DataHandler(data) ==
    LET st0 == [buffer |-> buffer \o data,                 \* :476
                waitingForMetadata |-> waitingForMetadata,
                metadataLength |-> metadataLength,
                metadata |-> metadata,
                frameCount |-> frameCount,
                threw |-> FALSE,
                out |-> <<>>]
        st == DecodeLoop(st0)
    IN  /\ buffer' = st.buffer
        /\ waitingForMetadata' = st.waitingForMetadata
        /\ metadataLength' = st.metadataLength
        /\ metadata' = st.metadata
        /\ frameCount' = st.frameCount
        /\ crashed' = st.threw          \* no 'uncaughtException' handler: the process exits
        /\ broadcasts' = broadcasts \o BroadcastCalls(st.out)
        /\ liveSent' = BroadcastAll(liveSent, BroadcastCalls(st.out))
        /\ storageQueue' = EnqueueAll(storageQueue, st.out)
        /\ enqResult' = LastEnqResult(storageQueue, st.out, "none")
        /\ sawPartial' = (sawPartial \/ ~st.waitingForMetadata \/ st.buffer # <<>>)

\* the TCP stack delivers the next k bytes of the connection
SocketData(k) ==
    /\ ~crashed
    /\ k \in 1..Len(wire)
    /\ DataHandler(Take(wire, k))
    /\ wire' = Drop(wire, k)
    /\ UNCHANGED <<units, peer>>

(***************************************************************************)
(* A second camera connection.  Every connection runs the callback of      *)
(* net.createServer (index.js:464-540), whose let variables buffer,        *)
(* waitingForMetadata, metadataLength, metadata and frameCount belong to   *)
(* that call; peer holds them for the second connection, with the units    *)
(* its camera sent, the bytes still in flight, and the places in           *)
(* broadcasts of the frames it emitted (history).                          *)
(***************************************************************************)
\* the closure of a connection on which nothing has arrived (index.js:467-471)
FreshSocket(ws, us) ==
    [wire |-> ws, units |-> us, buffer |-> <<>>, waitingForMetadata |-> TRUE,
     metadataLength |-> 0, metadata |-> Null, frameCount |-> 0, at |-> {}]

\* no second connection
NoPeer == FreshSocket(<<>>, <<>>)

\* variant of PeerBuffer for a buffer that the connections share
PeerBufferShared(data) == buffer \o data
\* index.js:476  buffer = Buffer.concat([buffer, data]) on the second connection
PeerBuffer(data) == peer.buffer \o data

\* socket.on('data') of the second connection, index.js:475-540
PeerHandler(data) ==
    LET st0 == [buffer |-> PeerBuffer(data),                \* :476
                waitingForMetadata |-> peer.waitingForMetadata,
                metadataLength |-> peer.metadataLength,
                metadata |-> peer.metadata,
                frameCount |-> peer.frameCount,
                threw |-> FALSE,
                out |-> <<>>]
        st == DecodeLoop(st0)
        calls == BroadcastCalls(st.out)
    IN  /\ peer' = [peer EXCEPT !.wire = Drop(peer.wire, Len(data)),
                                  !.buffer = st.buffer,
                                  !.waitingForMetadata = st.waitingForMetadata,
                                  !.metadataLength = st.metadataLength,
                                  !.metadata = st.metadata,
                                  !.frameCount = st.frameCount,
                                  !.at = peer.at \cup
                                         ((Len(broadcasts) + 1)..(Len(broadcasts) + Len(calls)))]
        /\ crashed' = st.threw
        /\ broadcasts' = broadcasts \o calls
        /\ liveSent' = BroadcastAll(liveSent, calls)
        /\ storageQueue' = EnqueueAll(storageQueue, st.out)
        /\ enqResult' = LastEnqResult(storageQueue, st.out, "none")

\* the TCP stack delivers the next k bytes of the second connection
PeerData(k) ==
    /\ ~crashed
    /\ k \in 1..Len(peer.wire)
    /\ PeerHandler(Take(peer.wire, k))
    /\ UNCHANGED <<wire, units, sawPartial, buffer, waitingForMetadata, metadataLength,
                   metadata, frameCount>>

(***************************************************************************)
(* ----------------------------- Date ----------------------------------- *)
(* A timestamp is a number of milliseconds since the epoch.  The model's   *)
(* timestamps are below 2^31 ms (24 days), so every date falls in January  *)
(* 1970; the server's time zone is taken to be UTC.                        *)
(***************************************************************************)
\* <<getFullYear(), getMonth() + 1, getDate(), getHours(), getMinutes(),
\*   getSeconds(), getMilliseconds()>> of new Date(t)
DateFields(t) ==
    << 1970, 1, 1 + (t \div 86400000), (t \div 3600000) % 24, (t \div 60000) % 60,
       (t \div 1000) % 60, t % 1000 >>

(***************************************************************************)
(* ------------------------ POST /api/frames ---------------------------- *)
(***************************************************************************)
\* the base64 text of a byte sequence, two symbols per byte
Base64Encode(bytes) ==
    [i \in 1..(2 * Len(bytes)) |->
        IF i % 2 = 1 THEN bytes[(i + 1) \div 2] \div 16 ELSE bytes[i \div 2] % 16]

\* Buffer.from(imageBase64, 'base64'), index.js:593
Base64Decode(text) ==
    [i \in 1..(Len(text) \div 2) |-> 16 * text[2 * i - 1] + text[2 * i]]

\* index.js:558-568: the fields the name is made of, in the order yy MM dd hh mm ss _ mmm
makeFilenameFromTimestamp(ts) ==
    LET d == DateFields(ts)
    IN  << d[1] % 100, d[2], d[3], d[4], d[5], d[6], d[7] >>

\* index.js:581  storageQueue.length >= STORAGE_QUEUE_MAX
PostQueueFull(q) == Len(q) >= STORAGE_QUEUE_MAX

\* index.js:586-594; body.present names the fields the request body carries
PostItem(body) ==
    [camNo |-> body.camNo,
     filename |-> IF "filename" \in body.present THEN body.filename
                  ELSE makeFilenameFromTimestamp(body.timestamp),
     timestamp |-> body.timestamp,
     imageBuffer |-> Base64Decode(body.imageBase64)]

\* app.post('/api/frames'), index.js:573-608
PostFrames(body) ==
    /\ IF ~({"camNo", "timestamp", "imageBase64"} \subseteq body.present)
       THEN /\ enqResult' = "invalid-400"                       \* :577-579
            /\ UNCHANGED storageQueue
       ELSE IF PostQueueFull(storageQueue)
       THEN /\ enqResult' = "rejected-429"                      \* :581-584
            /\ UNCHANGED storageQueue
       ELSE /\ storageQueue' = Append(storageQueue, PostItem(body))   \* :596
            /\ enqResult' = "queued"
    /\ UNCHANGED <<broadcasts, liveSent>>

(***************************************************************************)
(* --------------------------- Index queue ------------------------------ *)
(* db is the record [q, timerVar, pending, flights] of dbInsertQueue,      *)
(* dbFlushTimer, the timer's being set, and the suspended flushes.         *)
(***************************************************************************)
DbState ==
    [q |-> dbInsertQueue, timerVar |-> dbFlushTimer, pending |-> flushTimers,
     flights |-> flights]

SetDb(db) ==
    /\ dbInsertQueue' = db.q
    /\ dbFlushTimer' = db.timerVar
    /\ flushTimers' = db.pending
    /\ flights' = db.flights

\* index.js:395  dbInsertQueue.splice(0, DB_BATCH_SIZE): the removed batch, and what is left
BatchOf(q) == Take(q, IF Len(q) < DB_BATCH_SIZE THEN Len(q) ELSE DB_BATCH_SIZE)
AfterSplice(q) == Drop(q, Len(BatchOf(q)))

\* index.js:390-393  clearTimeout(dbFlushTimer) cancels the timer the variable names
ClearTimer(db) == IF db.timerVar /\ db.pending > 0 THEN db.pending - 1 ELSE db.pending

\* variant of FlushBegin without the clearTimeout of index.js:390-393
FlushBeginKeepsTimer(db) ==
    IF db.q = <<>> THEN db
    ELSE [db EXCEPT !.q = AfterSplice(db.q),
                    !.flights = Append(db.flights,
                                  [batch |-> BatchOf(db.q), phase |-> "connecting"])]
\* flushDbBatch up to its first await, index.js:387-416
FlushBegin(db) ==
    IF db.q = <<>> THEN db                                         \* :388
    ELSE [db EXCEPT !.timerVar = FALSE, !.pending = ClearTimer(db), \* :390-393
                    !.q = AfterSplice(db.q),                       \* :395
                    !.flights = Append(db.flights,
                                  [batch |-> BatchOf(db.q), phase |-> "connecting"])]

\* dbEvents.on('enqueue'), index.js:377-385
DbEnqueue(db, task) ==
    LET d1 == [db EXCEPT !.q = Append(db.q, task)]                 \* :378
    IN  IF Len(d1.q) >= DB_BATCH_SIZE THEN FlushBegin(d1)          \* :380-381
        ELSE IF ~d1.timerVar
             THEN [d1 EXCEPT !.timerVar = TRUE,                    \* :382-383
                             !.pending = d1.pending + 1]
             ELSE d1

\* variant of Requeue that leaves the failed batch out
RequeueDropsBatch(batch, q) == q
\* index.js:422  dbInsertQueue = batch.concat(dbInsertQueue)
Requeue(batch, q) == batch \o q

\* index.js:397-412: the row of VALUES built from a task
RowOf(t) == [camNo |-> t.camNo, key |-> DateFields(t.timestamp), l_location |-> t.imgPath]

RowsOf(batch) == [i \in 1..Len(batch) |-> RowOf(batch[i])]

RemoveAt(s, i) == Take(s, i - 1) \o Drop(s, i)

\* the timer of index.js:383 fires
FlushTimerFires ==
    /\ flushTimers > 0
    /\ SetDb(FlushBegin([DbState EXCEPT !.pending = flushTimers - 1]))
    /\ UNCHANGED <<retryTimers, totalDbInserts, extVars, histVars>>

\* a timer of index.js:423 fires
RetryTimerFires ==
    /\ retryTimers > 0
    /\ retryTimers' = retryTimers - 1
    /\ SetDb(FlushBegin(DbState))
    /\ UNCHANGED <<totalDbInserts, extVars, histVars>>

\* variant of Release for a finally that does not give the connection back
ReleaseLeaks(n) == n
\* index.js:425, :1058  conn.end() gives the connection back to the pool
Release(n) == n - 1

\* index.js:416  pool.getConnection() resolves
FlushGotConnection(i) ==
    /\ i \in 1..Len(flights)
    /\ flights[i].phase = "connecting"
    /\ poolOut < POOL_LIMIT
    /\ poolOut' = poolOut + 1
    /\ flights' = [flights EXCEPT ![i].phase = "querying"]
    /\ UNCHANGED <<dbInsertQueue, dbFlushTimer, flushTimers, retryTimers,
                   totalDbInserts, tbIndex, histVars>>

\* index.js:416  pool.getConnection() rejects: catch :420-423, finally :425 with conn undefined
FlushConnectionFails(i) ==
    /\ i \in 1..Len(flights)
    /\ flights[i].phase = "connecting"
    /\ retryTimers < MaxRetryTimers
    /\ dbInsertQueue' = Requeue(flights[i].batch, dbInsertQueue)
    /\ retryTimers' = retryTimers + 1
    /\ flights' = RemoveAt(flights, i)
    /\ failedOnce' = failedOnce \cup {flights[i].batch[j].timestamp : j \in 1..Len(flights[i].batch)}
    /\ UNCHANGED <<dbFlushTimer, flushTimers, totalDbInserts, extVars, handedOver>>

\* index.js:417-419  the bulk insert succeeds; finally :425
FlushQuerySucceeds(i) ==
    /\ i \in 1..Len(flights)
    /\ flights[i].phase = "querying"
    /\ tbIndex' = tbIndex \o RowsOf(flights[i].batch)
    /\ totalDbInserts' = totalDbInserts + Len(flights[i].batch)
    /\ poolOut' = Release(poolOut)
    /\ flights' = RemoveAt(flights, i)
    /\ UNCHANGED <<dbInsertQueue, dbFlushTimer, flushTimers, retryTimers, histVars>>

\* index.js:417  the bulk insert fails (no row is inserted); catch :420-423, finally :425
FlushQueryFails(i) ==
    /\ i \in 1..Len(flights)
    /\ flights[i].phase = "querying"
    /\ retryTimers < MaxRetryTimers
    /\ dbInsertQueue' = Requeue(flights[i].batch, dbInsertQueue)
    /\ retryTimers' = retryTimers + 1
    /\ poolOut' = Release(poolOut)
    /\ flights' = RemoveAt(flights, i)
    /\ failedOnce' = failedOnce \cup {flights[i].batch[j].timestamp : j \in 1..Len(flights[i].batch)}
    /\ UNCHANGED <<dbFlushTimer, flushTimers, totalDbInserts, tbIndex, handedOver>>

(***************************************************************************)
(* -------------------------- Storage worker ---------------------------- *)
(***************************************************************************)
\* index.js:441, :451: path.join(BMP_FOLDER, task.filename), relative to the working directory
ImgPath(filename) == [dir |-> "bmpData", name |-> filename]

\* index.js:448-452
IndexTaskOf(task) ==
    [camNo |-> task.camNo, timestamp |-> task.timestamp, imgPath |-> ImgPath(task.filename)]

\* the filename of a task made of metadata without the key filename
NoFilename == <<Undefined>>

\* index.js:441  path.join throws TypeError for an argument that is no string
PathJoinThrows(task) == task.filename = NoFilename

\* index.js:440-444: a pass of the loop up to the await of fs.writeFile.  The
\* call of path.join is outside the try: when it throws, the promise of
\* processStorageQueue rejects with no handler, no write is awaited, the
\* statement of index.js:458 is never reached, and the process goes on or
\* exits, as the Node.js version treats unhandled rejections.
TakeTask ==
    /\ storageQueue' = Tail(storageQueue)                        \* :440
    /\ IF PathJoinThrows(Head(storageQueue))                     \* :441
       THEN /\ curTask' = Null
            /\ crashed' \in BOOLEAN
       ELSE /\ curTask' = Head(storageQueue)
            /\ UNCHANGED crashed

\* variant of StorageTick without the test of isStorageProcessing
StorageTickUnguarded ==
    /\ ~crashed
    /\ storageQueue # <<>>
    /\ isStorageProcessing' = TRUE
    /\ TakeTask
    /\ enqResult' = "none"
    /\ UNCHANGED <<totalFilesSaved, blobStore, broadcasts, liveSent, clock, dbVars, extVars, histVars>>
\* setInterval(processStorageQueue, 700), index.js:434-444: the guard, and the
\* first pass of the loop up to the await of fs.writeFile
StorageTick ==
    /\ ~crashed
    /\ ~isStorageProcessing /\ storageQueue # <<>>               \* :435
    /\ isStorageProcessing' = TRUE                               \* :437
    /\ TakeTask
    /\ enqResult' = "none"
    /\ UNCHANGED <<totalFilesSaved, blobStore, broadcasts, liveSent, clock, dbVars, extVars, histVars>>

\* the rest of a pass after the await, then the loop test (index.js:439) and
\* either the next pass up to its await or the end of the drain (:458)
StorageLoop ==
    IF storageQueue # <<>>
    THEN /\ TakeTask
         /\ UNCHANGED isStorageProcessing
    ELSE /\ curTask' = Null
         /\ isStorageProcessing' = FALSE
         /\ UNCHANGED <<storageQueue, crashed>>

\* fs.writeFile resolves: index.js:445-452
WriteSucceeds ==
    /\ ~crashed
    /\ curTask # Null
    /\ totalFilesSaved' = totalFilesSaved + 1
    /\ blobStore' = blobStore \cup {ImgPath(curTask.filename)}
    /\ SetDb(DbEnqueue(DbState, IndexTaskOf(curTask)))
    /\ handedOver' = Append(handedOver, IndexTaskOf(curTask))
    /\ StorageLoop
    /\ enqResult' = "none"
    /\ UNCHANGED <<broadcasts, liveSent, clock, retryTimers, totalDbInserts, extVars, failedOnce>>

\* variant of WriteFails that forwards the Index Task of the failed write
WriteFailsForwards ==
    /\ ~crashed
    /\ curTask # Null
    /\ SetDb(DbEnqueue(DbState, IndexTaskOf(curTask)))
    /\ handedOver' = Append(handedOver, IndexTaskOf(curTask))
    /\ StorageLoop
    /\ enqResult' = "none"
    /\ UNCHANGED <<totalFilesSaved, blobStore, broadcasts, liveSent, clock, retryTimers,
                   totalDbInserts, extVars, failedOnce>>
\* fs.writeFile rejects: index.js:453-455
WriteFails ==
    /\ ~crashed
    /\ curTask # Null
    /\ StorageLoop
    /\ enqResult' = "none"
    /\ UNCHANGED <<totalFilesSaved, blobStore, broadcasts, liveSent, clock, dbVars, extVars, histVars>>

(***************************************************************************)
(* Arrival of frames at the pipeline.  The capture clock gives the n-th    *)
(* frame the timestamp 1000 * n + n (a new second and a new millisecond),  *)
(* a one-byte payload, and, where the sender names the file, a name made   *)
(* of the timestamp.                                                       *)
(***************************************************************************)
StampOf(n) == 1001 * n

\* a camera connection with an idle decoder receives one whole unit in one delivery
TcpDeliveryOf(named) ==
    /\ ~crashed
    /\ clock < MaxFrames
    /\ wire = <<>> /\ buffer = <<>> /\ waitingForMetadata
    /\ LET n == clock + 1
           u == [meta |-> [camNo |-> 1, timestamp |-> StampOf(n), size |-> 1,
                           filename |-> IF named THEN <<n>> ELSE NoFilename],
                 image |-> PayloadOf(n, 1)]
       IN  DataHandler(WireUnit(u))
    /\ clock' = clock + 1
    /\ UNCHANGED <<wire, units, peer, stoVars, dbVars, extVars, histVars>>

TcpDelivery == TcpDeliveryOf(TRUE)

PostBodies(n) ==
    { [present |-> {"camNo", "timestamp", "imageBase64"},
       camNo |-> 1, timestamp |-> StampOf(n), imageBase64 |-> Base64Encode(PayloadOf(n, 1))],
      [present |-> {"camNo", "timestamp", "imageBase64", "filename"},
       camNo |-> 1, timestamp |-> StampOf(n), imageBase64 |-> Base64Encode(PayloadOf(n, 1)),
       filename |-> <<n>>],
      [present |-> {"camNo", "timestamp"}, camNo |-> 1, timestamp |-> StampOf(n)] }

\* a client posts a frame
PostArrives ==
    /\ ~crashed
    /\ clock < MaxFrames
    /\ \E body \in PostBodies(clock + 1) : PostFrames(body)
    /\ clock' = clock + 1
    /\ UNCHANGED <<procVars, decVars, stoVars, dbVars, extVars, histVars>>

(***************************************************************************)
(* ------------------------------ Playback ------------------------------ *)
(***************************************************************************)
\* new Date(t_year, t_mon - 1, t_mday, t_hour, t_min, t_sec, t_mill).getTime(),
\* index.js:1043-1051, the inverse of DateFields on January 1970
TimeOf(k) == ((((k[3] - 1) * 24 + k[4]) * 60 + k[5]) * 60 + k[6]) * 1000 + k[7]

\* variant of KeyAtOrAfter with t_mill > ? for t_mill >= ?
KeyAtOrAfterStrict(k, s) ==
    \/ k[1] > s[1]
    \/ k[1] = s[1] /\ k[2] > s[2]
    \/ k[1] = s[1] /\ k[2] = s[2] /\ k[3] > s[3]
    \/ k[1] = s[1] /\ k[2] = s[2] /\ k[3] = s[3] /\ k[4] > s[4]
    \/ k[1] = s[1] /\ k[2] = s[2] /\ k[3] = s[3] /\ k[4] = s[4] /\ k[5] > s[5]
    \/ k[1] = s[1] /\ k[2] = s[2] /\ k[3] = s[3] /\ k[4] = s[4] /\ k[5] = s[5] /\ k[6] > s[6]
    \/ k[1] = s[1] /\ k[2] = s[2] /\ k[3] = s[3] /\ k[4] = s[4] /\ k[5] = s[5] /\ k[6] = s[6]
         /\ k[7] > s[7]
\* the WHERE clause of the first query on the timestamp fields, index.js:908-916
KeyAtOrAfter(k, s) ==
    \/ k[1] > s[1]
    \/ k[1] = s[1] /\ k[2] > s[2]
    \/ k[1] = s[1] /\ k[2] = s[2] /\ k[3] > s[3]
    \/ k[1] = s[1] /\ k[2] = s[2] /\ k[3] = s[3] /\ k[4] > s[4]
    \/ k[1] = s[1] /\ k[2] = s[2] /\ k[3] = s[3] /\ k[4] = s[4] /\ k[5] > s[5]
    \/ k[1] = s[1] /\ k[2] = s[2] /\ k[3] = s[3] /\ k[4] = s[4] /\ k[5] = s[5] /\ k[6] > s[6]
    \/ k[1] = s[1] /\ k[2] = s[2] /\ k[3] = s[3] /\ k[4] = s[4] /\ k[5] = s[5] /\ k[6] = s[6]
         /\ k[7] >= s[7]

\* variant of KeyAfter with t_mill >= ? for t_mill > ?
KeyAfterOrEqual(k, lr) == KeyAtOrAfter(k, lr)
\* the WHERE clause of the continuation query on the timestamp fields, index.js:959-967
KeyAfter(k, lr) ==
    \/ k[1] > lr[1]
    \/ k[1] = lr[1] /\ k[2] > lr[2]
    \/ k[1] = lr[1] /\ k[2] = lr[2] /\ k[3] > lr[3]
    \/ k[1] = lr[1] /\ k[2] = lr[2] /\ k[3] = lr[3] /\ k[4] > lr[4]
    \/ k[1] = lr[1] /\ k[2] = lr[2] /\ k[3] = lr[3] /\ k[4] = lr[4] /\ k[5] > lr[5]
    \/ k[1] = lr[1] /\ k[2] = lr[2] /\ k[3] = lr[3] /\ k[4] = lr[4] /\ k[5] = lr[5]
         /\ k[6] > lr[6]
    \/ k[1] = lr[1] /\ k[2] = lr[2] /\ k[3] = lr[3] /\ k[4] = lr[4] /\ k[5] = lr[5]
         /\ k[6] = lr[6] /\ k[7] > lr[7]

\* variant of Ordered for a query without its ORDER BY
OrderedAnyhow(a, b) == TRUE
\* the order of ORDER BY t_year, t_mon, t_mday, t_hour, t_min, t_sec, t_mill
\* (index.js:917, :968): a comes before b, or they tie
Ordered(a, b) ==
    \/ a = b
    \/ \E i \in 1..7 : a[i] < b[i] /\ \A j \in 1..(i - 1) : a[j] = b[j]

StoreRows == {tbIndex[i] : i \in 1..Len(tbIndex)}

\* the rows a query of session r selects: the first query (index.js:901-951)
\* while lastRowKey is null, the continuation query (:952-1003) afterwards
FirstMatch(r) == {row \in StoreRows : row.camNo = r.camNo /\ KeyAtOrAfter(row.key, r.startTime)}
ContinuationMatch(r) ==
    {row \in StoreRows : row.camNo = r.camNo /\ KeyAfter(row.key, r.lastRowKey.key)}
Matching(r) == IF r.lastRowKey = Null THEN FirstMatch(r) ELSE ContinuationMatch(r)

Min(a, b) == IF a < b THEN a ELSE b

\* The results ORDER BY ... LIMIT n can give for the selected rows: the first n
\* in the order of the keys.  SQL leaves the order of rows with equal keys
\* open, so every order of the ties is a possible result.
Pages(rows, n) ==
    LET m == Min(n, Cardinality(rows))
    IN  {p \in [1..m -> rows] :
            /\ \A i, j \in 1..m : i < j => p[i] # p[j] /\ Ordered(p[i].key, p[j].key)
            /\ \A row \in rows : (\A i \in 1..m : p[i] # row) =>
                                    \A i \in 1..m : Ordered(p[i].key, row.key)}

\* path.resolve(r.l_location), index.js:1042
Resolve(location) == [cwd |-> "cwd", rel |-> location]

\* index.js:1041-1052: the queue entries of the rows of a page
QueueEntries(page) ==
    [i \in 1..Len(page) |->
        [filePath |-> Resolve(page[i].l_location), timestamp |-> TimeOf(page[i].key)]]

\* index.js:1037  lastRowKey = rows[rows.length - 1]
CursorOf(page) == page[Len(page)]

\* fetchNextBatch up to its first await, index.js:888-896
FetchBegin(r) ==
    IF ~r.active \/ r.fetching \/ r.finished THEN r                  \* :889
    ELSE [r EXCEPT !.fetching = TRUE, !.fpc = "connecting"]          \* :890, :896

\* index.js:1219-1222: the worker leaves its loop
WorkerExit(r) == [r EXCEPT !.wpc = "done", !.workerRunning = FALSE, !.curFrame = Null]

\* index.js:1071  the worker asks for the next page
NeedsFetch(r) == Len(r.fileQueue) <= PLAYBACK_QUEUE_LOW /\ ~r.fetching /\ ~r.finished

\* variant of LoopTest for a loop that does not look at session.active
LoopTestIgnoresStop(r) == TRUE
\* index.js:1069  while (session.active)
LoopTest(r) == r.active

\* variant of PauseTest for a loop that does not look at session.paused
PauseTestIgnoresPause(r) == FALSE
\* index.js:1100  if (session.paused)
PauseTest(r) == r.paused

(***************************************************************************)
(* The worker from the loop test (index.js:1069) to its next await or to   *)
(* its exit; open is readyState === 1 of the session's connection.         *)
(***************************************************************************)
LoopTop(r, open) ==
    IF ~LoopTest(r) THEN WorkerExit(r)                                \* :1069
    ELSE
      LET r1 == IF NeedsFetch(r) THEN FetchBegin(r) ELSE r            \* :1071-1073
      IN  IF r1.fileQueue = <<>>                                      \* :1076
          THEN IF r1.finished
               THEN WorkerExit(                                       \* :1077-1092
                      [r1 EXCEPT !.sent = IF open
                                          THEN Append(r1.sent, [type |-> "playback-complete"])
                                          ELSE r1.sent])
               ELSE [r1 EXCEPT !.wpc = "sleep"]                       \* :1095
          ELSE IF PauseTest(r1)
               THEN [r1 EXCEPT !.wpc = "sleep"]                       \* :1100-1103
               ELSE [r1 EXCEPT !.curFrame = Head(r1.fileQueue),       \* :1105
                               !.fileQueue = Tail(r1.fileQueue),
                               !.wpc = "reading"]                     \* :1114

\* `await fetchNextBatch(); worker();`, index.js:1226-1227: the worker starts
\* when the first fetch ends
AfterFetch(r, open) == IF r.wpc = "starting" THEN LoopTop(r, open) ELSE r

\* index.js:1221  playbackSessions.delete(camNo), when the worker has left its loop
Cleanup(reg, r) == IF r.wpc = "done" THEN [reg EXCEPT ![r.camNo] = 0] ELSE reg

\* the session s becomes r; the cleanup runs if the worker has left its loop
SetSession(s, r) ==
    /\ sess' = [sess EXCEPT ![s] = r]
    /\ playbackSessions' = IF sess[s].wpc # "done" THEN Cleanup(playbackSessions, r)
                           ELSE playbackSessions

Open(r) == wsOpen[r.ws]

\* index.js:896  pool.getConnection() resolves
FetchGotConnection(s) ==
    /\ s \in 1..Len(sess)
    /\ sess[s].fpc = "connecting"
    /\ poolOut < POOL_LIMIT
    /\ poolOut' = poolOut + 1
    /\ sess' = [sess EXCEPT ![s].fpc = "querying"]
    /\ UNCHANGED <<playbackSessions, activeSession, wsOpen, closeHandled, wsErrors, tbIndex, otherVars>>

\* variant of FetchFailed for a fetch whose error path leaves the flag set
FetchFailedKeepsFlag(r) ==
    [r EXCEPT !.finished = TRUE, !.fpc = "idle", !.fetchError = TRUE]

\* index.js:1054-1060: catch and finally of a fetch
FetchFailed(r) ==
    [r EXCEPT !.finished = TRUE, !.fetching = FALSE, !.fpc = "idle", !.fetchError = TRUE]

\* index.js:896  pool.getConnection() rejects
FetchConnectionFails(s) ==
    /\ s \in 1..Len(sess)
    /\ sess[s].fpc = "connecting"
    /\ SetSession(s, AfterFetch(FetchFailed(sess[s]), Open(sess[s])))
    /\ UNCHANGED <<activeSession, wsOpen, closeHandled, wsErrors, extVars, otherVars>>

\* index.js:1005  conn.query() rejects
FetchQueryFails(s) ==
    /\ s \in 1..Len(sess)
    /\ sess[s].fpc = "querying"
    /\ SetSession(s, AfterFetch(FetchFailed(sess[s]), Open(sess[s])))
    /\ poolOut' = Release(poolOut)
    /\ UNCHANGED <<activeSession, wsOpen, closeHandled, wsErrors, tbIndex, otherVars>>

\* variant of NoRows for a fetch that reports every empty page to the viewer
NoRowsAlwaysNotice(r, open) ==
    [r EXCEPT !.finished = TRUE,
              !.sent = IF open
                       THEN Append(r.sent, [type |-> "playback-no-data"])
                       ELSE r.sent,
              !.fetching = FALSE, !.fpc = "idle"]

\* index.js:1008-1030: the query returned no row
NoRows(r, open) ==
    [r EXCEPT !.finished = TRUE,
              !.sent = IF r.totalRowsFetched = 0 /\ open
                       THEN Append(r.sent, [type |-> "playback-no-data"])
                       ELSE r.sent,
              !.fetching = FALSE, !.fpc = "idle"]

\* index.js:1032-1053: the query returned the rows of page
GotRows(r, page) ==
    [r EXCEPT !.totalRowsFetched = r.totalRowsFetched + Len(page),
              !.lastRowKey = CursorOf(page),
              !.fileQueue = r.fileQueue \o QueueEntries(page),
              !.fetched = r.fetched \o page,
              !.fetching = FALSE, !.fpc = "idle"]

\* index.js:1005  conn.query() resolves
FetchQueryReturns(s) ==
    /\ s \in 1..Len(sess)
    /\ sess[s].fpc = "querying"
    /\ \E page \in Pages(Matching(sess[s]), PLAYBACK_BATCH_SIZE) :
         LET r == sess[s]
             r1 == IF page = <<>> THEN NoRows(r, Open(r)) ELSE GotRows(r, page)
         IN  SetSession(s, AfterFetch(r1, Open(r)))
    /\ poolOut' = Release(poolOut)
    /\ UNCHANGED <<activeSession, wsOpen, closeHandled, wsErrors, tbIndex, otherVars>>

\* a timer of the worker fires (index.js:1095, :1101, :1170)
WorkerWakes(s) ==
    /\ s \in 1..Len(sess)
    /\ sess[s].wpc = "sleep"
    /\ SetSession(s, LoopTop(sess[s], Open(sess[s])))
    /\ UNCHANGED <<activeSession, wsOpen, closeHandled, wsErrors, extVars, otherVars>>

\* index.js:1136-1140: the header of a playback frame (filePath is kept to tell the frames apart)
\* and its message, index.js:1141-1144; the bytes that fs.readFile gives for a
\* file are modelled by the file's name, so that files differ in their bytes
PlaybackFrame(r) ==
    [type |-> "playback", camNo |-> r.camNo, timestamp |-> r.curFrame.timestamp,
     filePath |-> r.curFrame.filePath,
     payload |-> EncodeFrame([camNo |-> r.camNo, timestamp |-> r.curFrame.timestamp,
                              type |-> "playback"],
                             r.curFrame.filePath.rel.name)]

\* fs.readFile resolves, for the path or for the fallback path: index.js:1114-1170
ReadSucceeds(s) ==
    /\ s \in 1..Len(sess)
    /\ sess[s].wpc = "reading"
    /\ LET r == sess[s]
       IN  SetSession(s,
             IF Open(r)                                                 \* :1147
             THEN [r EXCEPT !.sent = Append(r.sent, PlaybackFrame(r)),  \* :1148
                            !.frameCount = r.frameCount + 1,            \* :1149
                            !.consecutiveErrors = 0,                    \* :1150
                            !.curFrame = Null,
                            !.wpc = "sleep"]                            \* :1170
             ELSE WorkerExit([r EXCEPT !.active = FALSE]))              \* :1151-1155
    /\ UNCHANGED <<activeSession, wsOpen, closeHandled, wsErrors, extVars, otherVars>>

\* variant of TooManyErrors with > for >=
TooManyErrorsLate(n) == n > MAX_CONSECUTIVE_ERRORS
\* index.js:1181  consecutiveErrors >= MAX_CONSECUTIVE_ERRORS
TooManyErrors(n) == n >= MAX_CONSECUTIVE_ERRORS

\* fs.readFile rejects (and so does the fallback): index.js:1171-1216
ReadFails(s) ==
    /\ s \in 1..Len(sess)
    /\ sess[s].wpc = "reading"
    /\ LET r == sess[s]
           n == r.consecutiveErrors + 1                                 \* :1172
           open == Open(r)
       IN  SetSession(s,
             IF TooManyErrors(n)
             THEN WorkerExit(                                           \* :1181-1200
                    [r EXCEPT !.consecutiveErrors = n,
                              !.sent = IF open
                                       THEN Append(r.sent, [type |-> "playback-no-frames"])
                                       ELSE r.sent,
                              !.active = FALSE])
             ELSE LoopTop(                                              \* :1203-1216
                    [r EXCEPT !.consecutiveErrors = n,
                              !.curFrame = Null,
                              !.sent = IF n % FRAME_MISSING_EVERY = 0 /\ open
                                       THEN Append(r.sent, [type |-> "frame-missing"])
                                       ELSE r.sent],
                    open))
    /\ UNCHANGED <<activeSession, wsOpen, closeHandled, wsErrors, extVars, otherVars>>

(***************************************************************************)
(* The viewer's commands.  A handler's awaits are of stopPlayback, which   *)
(* does no I/O: the handler runs to its end before any other event is      *)
(* dispatched (each message is dispatched in an event-loop turn of its     *)
(* own).                                                                   *)
(***************************************************************************)
\* stopPlayback(camNo), index.js:865-873, on the registry and on the sessions
StopRegistry(reg, cam) == [reg EXCEPT ![cam] = 0]
\* variant of StopSessions that stops every session of the camera
StopSessionsOfCamera(ss, reg, cam) ==
    [i \in 1..Len(ss) |-> IF ss[i].camNo = cam THEN [ss[i] EXCEPT !.active = FALSE] ELSE ss[i]]
StopSessions(ss, reg, cam) ==
    IF reg[cam] = 0 THEN ss ELSE [ss EXCEPT ![reg[cam]].active = FALSE]

\* index.js:265-272  the fields of new Date(year, month - 1, day, hour || 0, ...)
StartKey(t) == << t.year, t.month, t.day, t.hour, t.minute, t.second, 0 >>

\* index.js:262-279, and startPlaybackSession up to its await (:876-896, :1226)
NewSession(c, cam, t) ==
    FetchBegin(
      [camNo |-> cam, ws |-> c, startTime |-> StartKey(t), fileQueue |-> <<>>,
       active |-> TRUE, paused |-> FALSE, frameCount |-> 0,
       workerRunning |-> TRUE,                                          \* :880
       lastRowKey |-> Null, fetching |-> FALSE, finished |-> FALSE,     \* :882-884
       totalRowsFetched |-> 0,                                          \* :885
       consecutiveErrors |-> 0, wpc |-> "starting", fpc |-> "idle", curFrame |-> Null,
       sent |-> << [type |-> "playback-started"] >>,                    \* :290-296
       fetched |-> <<>>, atStart |-> StoreRows, fetchError |-> FALSE])

\* index.js:254-258  stop the session this connection was running
StopOwn(st, c) ==
    IF activeSession[c] = 0 THEN st
    ELSE [reg |-> StopRegistry(st.reg, sess[activeSession[c]].camNo),
          ss |-> StopSessions(st.ss, st.reg, sess[activeSession[c]].camNo)]

\* index.js:249-252  stop the session registered for the camera
StopRegistered(st, cam) ==
    [reg |-> StopRegistry(st.reg, cam), ss |-> StopSessions(st.ss, st.reg, cam)]

\* ws.on('message') with a valid playback-start, index.js:241-300
PlaybackStart(c, cam, t) ==
    /\ wsOpen[c]
    /\ LET st0 == [reg |-> playbackSessions, ss |-> sess]
           st1 == StopRegistered(st0, cam)
           st2 == StopOwn(st1, c)
           n == Len(sess) + 1
       IN  /\ sess' = Append(st2.ss, NewSession(c, cam, t))
           /\ playbackSessions' = [st2.reg EXCEPT ![cam] = n]           \* :281
           /\ activeSession' = [activeSession EXCEPT ![c] = n]          \* :282
    /\ UNCHANGED <<wsOpen, closeHandled, wsErrors, extVars, otherVars>>

\* ws.on('message') with playback-stop, index.js:303-309
PlaybackStop(c) ==
    /\ wsOpen[c]
    /\ activeSession[c] # 0
    /\ LET st == StopOwn([reg |-> playbackSessions, ss |-> sess], c)
       IN  /\ sess' = st.ss
           /\ playbackSessions' = st.reg
    /\ activeSession' = [activeSession EXCEPT ![c] = 0]
    /\ UNCHANGED <<wsOpen, closeHandled, wsErrors, extVars, otherVars>>

\* ws.on('message') with playback-pause / playback-resume, index.js:312-327
PlaybackPause(c, p) ==
    /\ wsOpen[c]
    /\ activeSession[c] # 0
    /\ sess' = [sess EXCEPT ![activeSession[c]].paused = p]
    /\ UNCHANGED <<playbackSessions, activeSession, wsOpen, closeHandled, wsErrors, extVars, otherVars>>

\* the viewer's connection leaves the open state
WsCloses(c) ==
    /\ wsOpen[c]
    /\ wsOpen' = [wsOpen EXCEPT ![c] = FALSE]
    /\ UNCHANGED <<playbackSessions, sess, activeSession, closeHandled, wsErrors, extVars, otherVars>>

\* ws.on('close'), index.js:338-347
WsCloseEvent(c) ==
    /\ ~wsOpen[c] /\ ~closeHandled[c]
    /\ closeHandled' = [closeHandled EXCEPT ![c] = TRUE]
    /\ LET st == StopOwn([reg |-> playbackSessions, ss |-> sess], c)
       IN  /\ sess' = st.ss
           /\ playbackSessions' = st.reg
    /\ activeSession' = [activeSession EXCEPT ![c] = 0]
    /\ UNCHANGED <<wsOpen, wsErrors, extVars, otherVars>>

\* the index queue inserts the next of the rows `late` while sessions play (index.js:417)
RowInserted(late) ==
    /\ \E i \in 1..Len(late) :
         /\ late[i] \notin StoreRows
         /\ \A j \in 1..(i - 1) : late[j] \in StoreRows
         /\ tbIndex' = Append(tbIndex, late[i])
    /\ UNCHANGED <<poolOut, pbVars, otherVars>>

(***************************************************************************)
(* Specification of one camera connection fed an arbitrary sequence of     *)
(* well-formed wire units, cut into deliveries at arbitrary places.        *)
(***************************************************************************)
Filenames == {<<>>, <<5>>}

\* the i-th unit of a connection: the capture clock advances with i
WellFormedUnits(i) ==
    {[meta |-> [camNo |-> 1, timestamp |-> i, size |-> n, filename |-> f],
      image |-> PayloadOf(i, n)] :
        f \in Filenames, n \in 0..MaxPayload}

UnitSeqs ==
    UNION {{us \in [1..n -> UNION {WellFormedUnits(i) : i \in 1..n}] :
                \A i \in 1..n : us[i] \in WellFormedUnits(i)} : n \in 0..MaxUnits}

WireOf(us) == Concat([i \in 1..Len(us) |-> WireUnit(us[i])])

InitDecoder ==
    /\ buffer = <<>>                 \* index.js:467
    /\ waitingForMetadata = TRUE     \* :468
    /\ metadataLength = 0            \* :469
    /\ metadata = Null               \* :470
    /\ frameCount = 0                \* :471
    /\ crashed = FALSE

Cams == {1, 2}
Conns == {1, 2}

InitPipeline ==
    /\ broadcasts = <<>>
    /\ liveSent = [c \in Conns |-> <<>>]
    /\ storageQueue = <<>>           \* :430
    /\ enqResult = "none"
    /\ clock = 0
    /\ isStorageProcessing = FALSE   \* :431
    /\ curTask = Null
    /\ totalFilesSaved = 0           \* :432
    /\ blobStore = {}
    /\ dbInsertQueue = <<>>          \* :373
    /\ dbFlushTimer = FALSE          \* :374
    /\ flushTimers = 0
    /\ retryTimers = 0
    /\ flights = <<>>
    /\ totalDbInserts = 0            \* :375
    /\ handedOver = <<>>
    /\ failedOnce = {}


InitPlayback ==
    /\ playbackSessions = [cam \in Cams |-> 0]    \* :228
    /\ sess = <<>>
    /\ activeSession = [c \in Conns |-> 0]        \* :234
    /\ wsOpen = [c \in Conns |-> TRUE]
    /\ closeHandled = [c \in Conns |-> FALSE]
    /\ wsErrors = [c \in Conns |-> <<>>]

EmptyStore ==
    /\ poolOut = 0
    /\ tbIndex = <<>>

InitDecode ==
    /\ units \in UnitSeqs
    /\ peer = NoPeer
    /\ wire = WireOf(units)
    /\ sawPartial = FALSE
    /\ InitDecoder
    /\ InitPipeline
    /\ InitPlayback
    /\ EmptyStore

NextDecode ==
    \E k \in 1..Len(wire) :
        SocketData(k) /\ UNCHANGED <<clock, stoVars, dbVars, extVars, histVars, pbVars>>

vars == <<procVars, decVars, ingVars, stoVars, dbVars, extVars, histVars, pbVars>>

SpecDecode == InitDecode /\ [][NextDecode]_vars

(***************************************************************************)
(* Specification of the storage pipeline: frames arrive over TCP and over  *)
(* POST /api/frames, the storage worker drains the queue, the index queue  *)
(* flushes to tb_index.                                                    *)
(***************************************************************************)
InitPipe ==
    /\ units = <<>>
    /\ peer = NoPeer
    /\ wire = <<>>
    /\ sawPartial = FALSE
    /\ InitDecoder
    /\ InitPipeline
    /\ InitPlayback
    /\ EmptyStore

NextPipe ==
    \/ TcpDelivery /\ UNCHANGED pbVars
    \/ PostArrives /\ UNCHANGED pbVars
    \/ StorageTick /\ UNCHANGED <<decVars, pbVars>>
    \/ WriteSucceeds /\ UNCHANGED <<decVars, pbVars>>
    \/ WriteFails /\ UNCHANGED <<decVars, pbVars>>
    \/ FlushTimerFires /\ UNCHANGED <<procVars, decVars, ingVars, stoVars, pbVars>>
    \/ RetryTimerFires /\ UNCHANGED <<procVars, decVars, ingVars, stoVars, pbVars>>
    \/ \E i \in 1..Len(flights) :
          FlushGotConnection(i) /\ UNCHANGED <<procVars, decVars, ingVars, stoVars, pbVars>>
    \/ \E i \in 1..Len(flights) :
          FlushConnectionFails(i) /\ UNCHANGED <<procVars, decVars, ingVars, stoVars, pbVars>>
    \/ \E i \in 1..Len(flights) :
          FlushQuerySucceeds(i) /\ UNCHANGED <<procVars, decVars, ingVars, stoVars, pbVars>>
    \/ \E i \in 1..Len(flights) :
          FlushQueryFails(i) /\ UNCHANGED <<procVars, decVars, ingVars, stoVars, pbVars>>

SpecPipe == InitPipe /\ [][NextPipe]_vars

\* the frames the units of us stand for
FramesOf(us) ==
    [i \in 1..Len(us) |->
        [camNo |-> us[i].meta.camNo, timestamp |-> us[i].meta.timestamp,
         image |-> us[i].image]]

IsPrefix(s, t) == Len(s) <= Len(t) /\ s = Take(t, Len(s))

\* C1: however the bytes of N well-formed units are cut into deliveries, the
\* decode loop emits the units' frames in order (camera, timestamp, payload
\* bytes), never anything else on the way, and once all bytes have been
\* delivered it has emitted exactly N frames and is back at an empty buffer
\* waiting for a header length.
C1_DecodeAnyChunking ==
    /\ IsPrefix(broadcasts, FramesOf(units))
    /\ frameCount = Len(broadcasts)
    /\ wire = <<>> =>
          /\ broadcasts = FramesOf(units)
          /\ buffer = <<>>
          /\ waitingForMetadata
          /\ metadata = Null

\* two units, all delivered, with a delivery that ended inside a unit
C1_Witness ==
    /\ wire = <<>>
    /\ Len(units) = 2
    /\ sawPartial
    /\ Len(broadcasts) = 2
    /\ broadcasts[1].image # broadcasts[2].image


(***************************************************************************)
(* Specification of playback: viewers start, pause, resume and stop        *)
(* sessions and disconnect, the sessions fetch pages of the index and pace *)
(* the frames out, and the index queue goes on inserting rows.             *)
(***************************************************************************)
\* a row of tb_index for a frame of camera cam captured at t, in file n
IndexRow(cam, t, n) == [camNo |-> cam, key |-> DateFields(t), l_location |-> ImgPath(<<n>>)]

\* the start time of a playback-start message: second sec of 1 January 1970
StartAt(sec) ==
    [year |-> 1970, month |-> 1, day |-> 1, hour |-> 0, minute |-> 0, second |-> sec]

IdleIngest ==
    /\ units = <<>>
    /\ peer = NoPeer
    /\ wire = <<>>
    /\ sawPartial = FALSE
    /\ InitDecoder
    /\ InitPipeline

\* the commands and disconnects of the viewers in Cs, who start at most n
\* sessions, for the cameras in CamS and from the start times in Ts
ViewerSteps(Cs, CamS, Ts, n) ==
    \/ \E c \in Cs, cam \in CamS, t \in Ts : Len(sess) < n /\ PlaybackStart(c, cam, t)
    \/ \E c \in Cs : PlaybackStop(c)
    \/ \E c \in Cs : WsCloses(c)
    \/ \E c \in Cs : WsCloseEvent(c)

PauseSteps(Cs) == \E c \in Cs, p \in BOOLEAN : PlaybackPause(c, p)

\* the steps of the fetches
FetchSteps ==
    \/ \E s \in 1..Len(sess) : FetchGotConnection(s)
    \/ \E s \in 1..Len(sess) : FetchConnectionFails(s)
    \/ \E s \in 1..Len(sess) : FetchQueryFails(s)
    \/ \E s \in 1..Len(sess) : FetchQueryReturns(s)

\* the steps of the pacing loops
WorkerSteps ==
    \/ \E s \in 1..Len(sess) : WorkerWakes(s)
    \/ \E s \in 1..Len(sess) : ReadSucceeds(s)
    \/ \E s \in 1..Len(sess) : ReadFails(s)

(***************************************************************************)
(* SpecPlay: one viewer and the one session it starts for camera 1 from    *)
(* second 2, over an index with rows before, at and after the start time,  *)
(* two rows with the same key, a row that differs in the minute, and a row *)
(* of camera 2; or with two rows of one key after the first page.          *)
(***************************************************************************)
PlayStores ==
    { << IndexRow(1, 1000, 1), IndexRow(2, 2000, 6), IndexRow(1, 2000, 2),
         IndexRow(1, 2007, 4) >>,
      << IndexRow(1, 1000, 1), IndexRow(1, 2000, 2), IndexRow(1, 2000, 3),
         IndexRow(1, 2007, 4), IndexRow(2, 2000, 6) >>,
      << IndexRow(1, 2007, 4), IndexRow(1, 61000, 5) >>,
      << IndexRow(1, 2000, 2), IndexRow(1, 2007, 4), IndexRow(1, 2007, 7),
         IndexRow(1, 61000, 5) >> }

PlayLateRows == << IndexRow(1, 2000, 3), IndexRow(1, 61000, 5) >>

InitPlay ==
    /\ IdleIngest
    /\ InitPlayback
    /\ tbIndex \in PlayStores
    /\ poolOut = 0

NextPlay ==
    \/ ViewerSteps({1}, {1}, {StartAt(2)}, 1)
    \/ PauseSteps({1})
    \/ FetchSteps
    \/ WorkerSteps
    \/ RowInserted(PlayLateRows)

SpecPlay == InitPlay /\ [][NextPlay]_vars

(***************************************************************************)
(* SpecSess: two viewers start, stop and restart sessions for camera 1 and *)
(* disconnect, over an index of one row at the start time; the database    *)
(* and the disk answer every request.                                      *)
(***************************************************************************)
MaxSessions == 2         \* playback sessions started in one run

SessStore == << IndexRow(1, 2000, 2) >>

InitSess ==
    /\ IdleIngest
    /\ InitPlayback
    /\ tbIndex = SessStore
    /\ poolOut = 0

\* the steps of sessions whose requests are all answered
HealthySteps ==
    \/ \E s \in 1..Len(sess) : FetchGotConnection(s)
    \/ \E s \in 1..Len(sess) : FetchQueryReturns(s)
    \/ \E s \in 1..Len(sess) : WorkerWakes(s)
    \/ \E s \in 1..Len(sess) : ReadSucceeds(s)

NextSess ==
    \/ ViewerSteps(Conns, {1}, {StartAt(2)}, MaxSessions)
    \/ HealthySteps

SpecSess == InitSess /\ [][NextSess]_vars

\* timers fire, reads complete, the pool hands out connections and the
\* database answers: every enabled step of a session is eventually taken
SessFairness ==
    \A s \in 1..MaxSessions :
        /\ WF_vars(FetchGotConnection(s))
        /\ WF_vars(FetchQueryReturns(s))
        /\ WF_vars(WorkerWakes(s))
        /\ WF_vars(ReadSucceeds(s))

SpecSessFair == InitSess /\ [][NextSess]_vars /\ SessFairness

(***************************************************************************)
(* SpecRestart: as SpecSess, with one more start.                          *)
(***************************************************************************)
NextRestart ==
    \/ ViewerSteps(Conns, {1}, {StartAt(2)}, MaxSessions + 1)
    \/ HealthySteps

SpecRestart == InitSess /\ [][NextRestart]_vars

(***************************************************************************)
(* Claims about the storage queue and the index queue, under SpecPipe.     *)
(***************************************************************************)
DropSignals == {"dropped-warn", "rejected-429"}

\* the step is an enqueue attempt (a decoded TCP frame or a valid POST)
EnqueueAttempt == clock' = clock + 1 /\ enqResult' # "invalid-400"

\* C2: the storage queue never holds more than STORAGE_QUEUE_MAX tasks, whatever
\* the interleaving of TCP enqueues, POST enqueues and drains; an enqueue
\* attempted at capacity is answered with a drop signal (warning, or 429) and
\* leaves the queue as it was; an enqueue below capacity appends one task.
C2_StorageQueueBounded ==
    [][ /\ Len(storageQueue') <= STORAGE_QUEUE_MAX
        /\ EnqueueAttempt =>
              IF Len(storageQueue) >= STORAGE_QUEUE_MAX
              THEN enqResult' \in DropSignals /\ storageQueue' = storageQueue
              ELSE /\ enqResult' = "queued"
                   /\ Len(storageQueue') = Len(storageQueue) + 1
                   /\ Take(storageQueue', Len(storageQueue)) = storageQueue ]_vars

\* capacity + 1 enqueues without a drain: one drop, the queue at capacity
C2_Witness ==
    /\ clock = STORAGE_QUEUE_MAX + 1
    /\ ~isStorageProcessing /\ totalFilesSaved = 0 /\ handedOver = <<>>
    /\ Len(storageQueue) = STORAGE_QUEUE_MAX
    /\ enqResult \in DropSignals
    /\ \E i \in 1..Len(storageQueue) : storageQueue[i].timestamp = StampOf(1)

\* C3 (as claimed): after any interleaving of enqueues, flushes and insert
\* failures the index buffer lists the pending records in the order in which
\* they were enqueued (which is the order of their timestamps: the worker
\* hands the records over in arrival order).
C3_BufferInEnqueueOrder ==
    \A i, j \in 1..Len(dbInsertQueue) :
        i < j => dbInsertQueue[i].timestamp < dbInsertQueue[j].timestamp

Count(seq, x) == Cardinality({i \in 1..Len(seq) : seq[i] = x})

RECURSIVE InFlight(_)
InFlight(fs) == IF fs = <<>> THEN <<>> ELSE Head(fs).batch \o InFlight(Tail(fs))

\* C4: every record handed to the index queue is, at every moment, in exactly
\* one of the buffer, an in-flight batch or the store (there as its row), and
\* these hold nothing else: no record is inserted twice, none is discarded.
C4_ExactlyOnce ==
    /\ \A k \in 1..Len(handedOver) :
          Count(dbInsertQueue, handedOver[k]) + Count(InFlight(flights), handedOver[k])
            + Count(tbIndex, RowOf(handedOver[k])) = 1
    /\ Len(dbInsertQueue) + Len(InFlight(flights)) + Len(tbIndex) = Len(handedOver)
    /\ totalDbInserts = Len(tbIndex)

\* a record whose bulk insert failed is in the store after a retry
C4_Witness ==
    \E k \in 1..Len(tbIndex) :
        /\ \E t \in failedOnce : tbIndex[k].key = DateFields(t)
        /\ Len(tbIndex) = Len(handedOver) /\ Len(tbIndex) >= 2

(***************************************************************************)
(* Claims about one playback session, under SpecPlay.                      *)
(***************************************************************************)
\* the playback frames among the messages a session has sent
SentFrames(r) == SelectSeq(r.sent, LAMBDA m : m.type = "playback")

Sessions == 1..Len(sess)

HasSent(r, type) == \E i \in 1..Len(r.sent) : r.sent[i].type = type

\* the rows of the session's camera at or after its start time, among rows
Qualifying(r, rows) ==
    {row \in rows : row.camNo = r.camNo /\ TimeOf(row.key) >= TimeOf(r.startTime)}

\* C5: within one playback session the frames sent to the viewer have
\* non-decreasing timestamps, within a page of the prefetch and across the
\* page boundaries.
C5_TimestampsNonDecreasing ==
    \A s \in Sessions :
        LET f == SentFrames(sess[s])
        IN  \A i, j \in 1..Len(f) : i < j => f[i].timestamp <= f[j].timestamp

\* a session has sent the frames of more than one page, and time has advanced
C5_Witness ==
    \E s \in Sessions :
        LET f == SentFrames(sess[s])
        IN  /\ Len(f) > PLAYBACK_BATCH_SIZE
            /\ f[1].timestamp < f[Len(f)].timestamp
            /\ f[PLAYBACK_BATCH_SIZE].timestamp < f[PLAYBACK_BATCH_SIZE + 1].timestamp

\* C6: within one playback session no index entry is delivered twice (no row
\* is fetched twice, no file is sent twice); every continuation fetch returns
\* only rows whose key is strictly after the key of the last row of the page
\* before, and the cursor strictly increases with every non-empty fetch.
C6_NoRedelivery ==
    [][ \A s \in Sessions :
          LET r == sess[s]
              q == sess'[s]
              f == SentFrames(q)
          IN  /\ \A i, j \in 1..Len(q.fetched) : i < j => q.fetched[i] # q.fetched[j]
              /\ \A i, j \in 1..Len(f) : i < j => f[i].filePath # f[j].filePath
              /\ (Len(q.fetched) > Len(r.fetched) /\ r.lastRowKey # Null) =>
                    /\ \A i \in (Len(r.fetched) + 1)..Len(q.fetched) :
                          TimeOf(q.fetched[i].key) > TimeOf(r.lastRowKey.key)
                    /\ TimeOf(q.lastRowKey.key) > TimeOf(r.lastRowKey.key)
              /\ Len(q.fetched) > Len(r.fetched) => q.lastRowKey = q.fetched[Len(q.fetched)]
      ]_vars

\* a session played to its end over two non-empty fetches
C6_Witness ==
    \E s \in Sessions :
        /\ Len(sess[s].fetched) > PLAYBACK_BATCH_SIZE
        /\ Len(SentFrames(sess[s])) = Len(sess[s].fetched)
        /\ HasSent(sess[s], "playback-complete")

\* C7: a session started at T for camera C sends only frames of rows of
\* camera C whose key is at or after T, and its first fetch includes the rows
\* whose key equals T: with rows before T, at T and after T, the viewer gets
\* the row at T first and never the row before T.
C7_FromStartTime ==
    \A s \in Sessions :
        LET r == sess[s]
            f == SentFrames(r)
        IN  /\ \A i \in 1..Len(f) :
                  \E row \in Qualifying(r, StoreRows) :
                      /\ f[i].filePath = Resolve(row.l_location)
                      /\ f[i].timestamp = TimeOf(row.key)
                      /\ f[i].camNo = r.camNo
            /\ \A i \in 1..Len(r.fetched) : r.fetched[i] \in Qualifying(r, StoreRows)
            /\ (r.fetched # <<>> /\ \E row \in r.atStart :
                                       row.camNo = r.camNo /\ row.key = r.startTime)
                  => r.fetched[1].key = r.startTime

\* the index held a row before T, of another camera at T, at T and after T;
\* the viewer got the row at T, then the row after T, then playback-complete
C7_Witness ==
    \E s \in Sessions :
        LET r == sess[s]
            f == SentFrames(r)
        IN  /\ \E row \in r.atStart : row.camNo = r.camNo /\ TimeOf(row.key) < TimeOf(r.startTime)
            /\ \E row \in r.atStart : row.camNo # r.camNo /\ row.key = r.startTime
            /\ Len(f) = 2
            /\ f[1].timestamp = TimeOf(r.startTime)
            /\ f[2].timestamp > TimeOf(r.startTime)
            /\ HasSent(r, "playback-complete")

\* C8 (as claimed): when a session whose fetches all succeeded sends
\* playback-complete, every row of its camera with key at or after T that was
\* in the index when the session started has been fetched and popped.
C8_NoEntrySkipped ==
    \A s \in Sessions :
        LET r == sess[s]
        IN  (HasSent(r, "playback-complete") /\ ~r.fetchError) =>
                \A row \in Qualifying(r, r.atStart) :
                    \E i \in 1..Len(r.fetched) : r.fetched[i] = row

(***************************************************************************)
(* Claims about several sessions, under SpecSess and SpecRestart.          *)
(***************************************************************************)
\* the steps the pacing loop of r has left before its exit, at most, once r
\* has been stopped: a read in progress ends, then the loop test fails
StepsToExit(r) ==
    CASE r.wpc = "reading" -> 2
      [] r.wpc = "sleep" -> 1
      [] r.wpc = "starting" -> 1
      [] r.wpc = "done" -> 0

\* the step is a playback-start for a camera that has a registered session
Replaces == Len(sess') = Len(sess) + 1 /\ playbackSessions[sess'[Len(sess')].camNo] # 0

\* C9: when playback-start arrives for a camera that has a registered session,
\* the old session is inactive and out of the registry in the state in which
\* the new one is registered; a stopped session stays stopped, begins no read
\* and no fetch, and every step of its pacing loop brings it nearer to its
\* exit; the new session begins with no cursor and an empty queue, and the
\* first page any session fetches begins at the earliest row of its camera at
\* or after its own start time.
C9_Replacement ==
    [][ /\ Replaces =>
              LET n == Len(sess')
                  cam == sess'[n].camNo
                  old == playbackSessions[cam]
              IN  /\ ~sess'[old].active
                  /\ playbackSessions'[cam] = n
                  /\ \A c \in Cams : playbackSessions'[c] # old
                  /\ sess'[n].active
                  /\ sess'[n].lastRowKey = Null
                  /\ sess'[n].fileQueue = <<>>
                  /\ sess'[n].fetched = <<>>
                  /\ sess'[n].fpc = "connecting"
        /\ \A s \in Sessions :
              ~sess[s].active =>
                  /\ ~sess'[s].active
                  /\ StepsToExit(sess'[s]) <= StepsToExit(sess[s])
                  /\ sess'[s].wpc # sess[s].wpc => StepsToExit(sess'[s]) < StepsToExit(sess[s])
                  /\ sess[s].fpc = "idle" => sess'[s].fpc = "idle"
        /\ \A s \in Sessions :
              (sess[s].fetched = <<>> /\ sess'[s].fetched # <<>>) =>
                  /\ sess'[s].fetched[1] \in Qualifying(sess[s], StoreRows)
                  /\ \A row \in Qualifying(sess[s], StoreRows) :
                        TimeOf(sess'[s].fetched[1].key) <= TimeOf(row.key)
      ]_vars

\* C9, the termination: once stopped, a session's pacing loop exits (timers
\* fire, reads and queries complete)
C9_OldLoopTerminates ==
    \A s \in 1..MaxSessions :
        (s \in Sessions /\ ~sess[s].active) ~> (s \in Sessions /\ sess[s].wpc = "done")

\* the first viewer's session had fetched a page when the second viewer's
\* playback-start stopped it; its loop has exited and the new session has
\* fetched the row at its start time
C9_Witness ==
    /\ Len(sess) = 2
    /\ sess[1].ws = 1 /\ sess[2].ws = 2
    /\ wsOpen[1] /\ activeSession[1] = 1
    /\ ~sess[1].active /\ sess[1].wpc = "done"
    /\ sess[1].lastRowKey # Null
    /\ sess[2].active
    /\ sess[2].fetched # <<>> /\ sess[2].fetched[1].key = sess[2].startTime

\* C10 (as claimed): for each camera at most one playback session is active
\* with a running pacing loop.
C10_OneLoopPerCamera ==
    \A cam \in Cams :
        Cardinality({s \in Sessions : /\ sess[s].camNo = cam
                                      /\ sess[s].active
                                      /\ sess[s].workerRunning}) <= 1

\* C11 (as claimed): each viewer connection has at most one active playback
\* session streaming to it (active, its pacing loop running).
C11_OneSessionPerConnection ==
    \A c \in Conns :
        Cardinality({s \in Sessions : /\ sess[s].ws = c
                                      /\ sess[s].active
                                      /\ sess[s].workerRunning}) <= 1

\* the step is the processing of a playback-stop of viewer c, who has a session
StopOf(c) ==
    /\ wsOpen[c] /\ activeSession[c] # 0
    /\ activeSession'[c] = 0
    /\ Len(sess') = Len(sess)

\* C12 (as claimed): once a viewer's playback-stop has been processed, the
\* session that viewer started is inactive, unless its pacing loop has ended
\* already, and absent from the registry (so that its pacing loop ends at its
\* next test of the active flag), also when that session had replaced an
\* earlier session for the camera.
C12_StopStopsOwnSession ==
    [][ \A c \in Conns :
          StopOf(c) =>
              /\ ~sess'[activeSession[c]].active \/ ~sess'[activeSession[c]].workerRunning
              /\ \A cam \in Cams : playbackSessions'[cam] # activeSession[c] ]_vars

\* the step is the processing of a playback-stop or of the disconnect of
\* viewer c, who has a current session
StopOrCloseOf(c) ==
    /\ activeSession[c] # 0
    /\ activeSession'[c] = 0
    /\ Len(sess') = Len(sess)

\* C13 (as claimed): a playback-stop or a disconnect on a viewer's connection
\* ends only sessions started on that connection: a session that another
\* viewer started stays active, and registered if it was.
C13_OnlyOwnSessions ==
    [][ \A c \in Conns :
          StopOrCloseOf(c) =>
              \A s \in Sessions :
                  sess[s].ws # c =>
                      /\ sess[s].active => sess'[s].active
                      /\ playbackSessions[sess[s].camNo] = s =>
                            playbackSessions'[sess[s].camNo] = s ]_vars

(***************************************************************************)
(* Claims about the ingest of one camera connection.                       *)
(***************************************************************************)
\* the step decodes one frame of the camera connection
FrameDecoded == frameCount' = frameCount + 1

\* C14: every decoded frame is broadcast to the live viewers whatever the
\* state of the storage queue; when the storage copy is dropped because the
\* queue is full, the frame has been broadcast all the same and the drop
\* changes nothing but the log: the storage queue, the storage worker and the
\* index queue are as they were.
C14_BroadcastRegardless ==
    [][ FrameDecoded =>
          /\ Len(broadcasts') = Len(broadcasts) + 1
          /\ broadcasts'[Len(broadcasts')].timestamp = StampOf(clock')
          /\ Take(broadcasts', Len(broadcasts)) = broadcasts
          /\ Len(storageQueue) >= STORAGE_QUEUE_MAX =>
                /\ enqResult' = "dropped-warn"
                /\ storageQueue' = storageQueue
                /\ UNCHANGED <<stoVars, dbVars, extVars, histVars>> ]_vars

\* a frame arrived over TCP at a full queue: it was broadcast and not stored
C14_Witness ==
    /\ enqResult = "dropped-warn"
    /\ Len(storageQueue) = STORAGE_QUEUE_MAX
    /\ broadcasts # <<>>
    /\ broadcasts[Len(broadcasts)].timestamp = StampOf(clock)
    /\ \A i \in 1..Len(storageQueue) : storageQueue[i].timestamp # StampOf(clock)

\* C15: for one camera connection the frames are broadcast, and their tasks
\* appended to the storage queue, in the order in which their wire units
\* arrived: the k-th broadcast is the k-th unit, and the tasks of the storage
\* queue are tasks of the units in the units' order (the i-th unit of the
\* connection carries the timestamp i).
C15_ArrivalOrder ==
    /\ \A k \in 1..Len(broadcasts) :
          /\ broadcasts[k].timestamp = units[k].meta.timestamp
          /\ broadcasts[k].image = units[k].image
    /\ \A i, j \in 1..Len(storageQueue) :
          i < j => storageQueue[i].timestamp < storageQueue[j].timestamp
    /\ \A i \in 1..Len(storageQueue) :
          /\ storageQueue[i].timestamp \in 1..Len(broadcasts)
          /\ storageQueue[i].imageBuffer = units[storageQueue[i].timestamp].image
          /\ storageQueue[i].filename = units[storageQueue[i].timestamp].meta.filename

\* the camera sent at least two units, all were broadcast, and the storage
\* queue holds the tasks of the first and of the second
C15_Witness ==
    /\ wire = <<>>
    /\ Len(units) >= 2
    /\ Len(broadcasts) = Len(units)
    /\ Len(storageQueue) >= 2
    /\ storageQueue[1].timestamp = 1 /\ storageQueue[2].timestamp = 2
    /\ storageQueue[1].filename # storageQueue[2].filename

\* C16 (as claimed): the rows of the index store are in the arrival order of
\* their frames (the order of their capture times), also when bulk inserts
\* fail and are retried while other flushes run.
C16_StoreInArrivalOrder ==
    \A i, j \in 1..Len(tbIndex) :
        i < j => TimeOf(tbIndex[i].key) < TimeOf(tbIndex[j].key)

(***************************************************************************)
(* Claims about the pacing loop of one session, under SpecPlay.            *)
(***************************************************************************)
\* in this step session s sends a playback frame
FrameSent(s) == Len(SentFrames(sess'[s])) > Len(SentFrames(sess[s]))

\* in this step a read of session s, whose viewer is connected, ends without
\* a frame: the read failed
ReadFailed(s) ==
    /\ sess[s].wpc = "reading"
    /\ sess'[s].curFrame # sess[s].curFrame
    /\ ~FrameSent(s)
    /\ wsOpen[sess[s].ws]

NoticesOf(r, type) == Cardinality({i \in 1..Len(r.sent) : r.sent[i].type = type})

\* C17: the count of consecutive read failures goes up by one with every
\* failed read and back to 0 with every frame sent, and changes otherwise
\* never; the session is ended with the playback-no-frames notice in the step
\* in which the count reaches MAX_CONSECUTIVE_ERRORS: not by a failure that
\* leaves the count below it, and the count never passes it.
C17_NoFramesAtThreshold ==
    [][ \A s \in Sessions :
          LET r == sess[s]
              q == sess'[s]
              noticed == NoticesOf(q, "playback-no-frames") > NoticesOf(r, "playback-no-frames")
          IN  /\ q.consecutiveErrors <= MAX_CONSECUTIVE_ERRORS
              /\ NoticesOf(q, "playback-no-frames") <= 1
              /\ FrameSent(s) => q.consecutiveErrors = 0
              /\ ReadFailed(s) => q.consecutiveErrors = r.consecutiveErrors + 1
              /\ (wsOpen[r.ws] /\ ~FrameSent(s) /\ ~ReadFailed(s)) =>
                    q.consecutiveErrors = r.consecutiveErrors
              /\ noticed =>
                    /\ ReadFailed(s)
                    /\ q.consecutiveErrors = MAX_CONSECUTIVE_ERRORS
              /\ (ReadFailed(s) /\ q.consecutiveErrors = MAX_CONSECUTIVE_ERRORS) =>
                    /\ noticed
                    /\ ~q.active /\ ~q.workerRunning
              /\ (ReadFailed(s) /\ q.consecutiveErrors < MAX_CONSECUTIVE_ERRORS) =>
                    /\ ~noticed
                    /\ q.active = r.active ]_vars

\* a session was ended with the notice after more failed reads than the
\* threshold in all: a frame sent between them had reset the count
C17_Witness ==
    \E s \in Sessions :
        LET r == sess[s]
        IN  /\ HasSent(r, "playback-no-frames")
            /\ r.consecutiveErrors = MAX_CONSECUTIVE_ERRORS
            /\ Len(SentFrames(r)) >= 1
            /\ Len(r.fetched) - Len(r.fileQueue) - Len(SentFrames(r)) > MAX_CONSECUTIVE_ERRORS

(***************************************************************************)
(* Specification of one camera connection whose units are not all          *)
(* well-formed: the metadata of a unit is a text JSON.parse rejects, or an *)
(* object without size.                                                    *)
(***************************************************************************)
\* the i-th unit of a connection, with malformed metadata
MalformedUnits(i) ==
    {[meta |-> [camNo |-> Garbage, timestamp |-> i, size |-> n, filename |-> <<>>],
      image |-> PayloadOf(i, n)] : n \in 0..MaxPayload}
    \cup
    {[meta |-> [camNo |-> 1, timestamp |-> i, size |-> Undefined, filename |-> <<>>],
      image |-> PayloadOf(i, n)] : n \in 0..MaxPayload}

MalformedSeqs ==
    UNION {{us \in [1..n -> UNION {WellFormedUnits(i) \cup MalformedUnits(i) : i \in 1..n}] :
                /\ \A i \in 1..n : us[i] \in WellFormedUnits(i) \cup MalformedUnits(i)
                /\ \E i \in 1..n : us[i] \in MalformedUnits(i)} : n \in 1..MaxUnits}

InitMalformed ==
    /\ units \in MalformedSeqs
    /\ peer = NoPeer
    /\ wire = WireOf(units)
    /\ sawPartial = FALSE
    /\ InitDecoder
    /\ InitPipeline
    /\ InitPlayback
    /\ EmptyStore

SpecMalformed == InitMalformed /\ [][NextDecode]_vars

\* C18: a unit with malformed metadata costs only its own frame: the process
\* is not ended (the connection stays open), and once all bytes have been
\* delivered the decoder has emitted the frame of every well-formed unit of
\* the connection and is back waiting for a header length.
C18_MalformedAbortsOnlyFrame ==
    /\ ~crashed
    /\ wire = <<>> =>
          /\ \A i \in 1..Len(units) :
                units[i] \in WellFormedUnits(i) =>
                    \E k \in 1..Len(broadcasts) : broadcasts[k] = FramesOf(units)[i]
          /\ waitingForMetadata
          /\ metadata = Null

(***************************************************************************)
(* ws.on('message'), index.js:236-336, on any message: the dispatch on the *)
(* parsed message, the validation of playback-start, and the error         *)
(* replies.  A message is the record of what the handler reads from it.    *)
(***************************************************************************)
\* a message that parses to an object
Msg(a, st, cam) == [json |-> TRUE, action |-> a, startTime |-> st, camNo |-> cam]

\* a message JSON.parse throws on (index.js:238)
NotJSON == [json |-> FALSE, action |-> "", startTime |-> Null, camNo |-> Undefined]

\* !x for a number or an absent property
Falsy(x) == x = Undefined \/ x = 0

\* variant of InvalidPlaybackParameters without the test of startTime.day
InvalidPlaybackParametersNoDay(msg) ==
    \/ msg.startTime = Null
    \/ Falsy(msg.startTime.year)
    \/ Falsy(msg.startTime.month)
    \/ Falsy(msg.camNo)
\* index.js:245
InvalidPlaybackParameters(msg) ==
    \/ msg.startTime = Null
    \/ Falsy(msg.startTime.year)
    \/ Falsy(msg.startTime.month)
    \/ Falsy(msg.startTime.day)
    \/ Falsy(msg.camNo)

Commands == {"playback-start", "playback-stop", "playback-pause", "playback-resume"}

\* the text of the error event the handler answers msg with, "" when it
\* answers with none (index.js:246, :331, :334)
Rejection(msg) ==
    IF ~msg.json THEN "Malformed message."
    ELSE IF msg.action = "playback-start"
         THEN IF InvalidPlaybackParameters(msg) THEN "Invalid playback parameters." ELSE ""
         ELSE IF msg.action \in Commands THEN "" ELSE "Unknown command."

ErrorEvent(text) == [type |-> "error", message |-> text]

ViewerMessage(c, msg) ==
    /\ wsOpen[c]
    /\ IF Rejection(msg) # ""
       THEN /\ wsErrors' = [wsErrors EXCEPT ![c] = Append(@, ErrorEvent(Rejection(msg)))]
            /\ UNCHANGED <<playbackSessions, sess, activeSession, wsOpen, closeHandled,
                           extVars, otherVars>>
       ELSE IF msg.action = "playback-start"
            THEN PlaybackStart(c, msg.camNo, msg.startTime)
            ELSE IF msg.action = "playback-stop"
                 THEN PlaybackStop(c)
                 ELSE PlaybackPause(c, msg.action = "playback-pause")

(***************************************************************************)
(* SpecViewer: one viewer sends any messages, well-formed or not, and      *)
(* disconnects; its one session plays camera 1 over an index of three rows; *)
(* the database and the disk answer every request.                         *)
(***************************************************************************)
MaxRejected == 2         \* messages of one viewer that are answered with an error

Viewers == {1}

ViewerStore == << IndexRow(1, 2000, 2), IndexRow(1, 2007, 4), IndexRow(1, 61000, 5) >>

ViewerMessages ==
    {NotJSON, Msg("zoom", Null, Undefined),
     Msg("playback-start", Null, 1),
     Msg("playback-start", [StartAt(2) EXCEPT !.year = Undefined], 1),
     Msg("playback-start", [StartAt(2) EXCEPT !.month = Undefined], 1),
     Msg("playback-start", [StartAt(2) EXCEPT !.day = Undefined], 1),
     Msg("playback-start", StartAt(2), Undefined),
     Msg("playback-start", StartAt(2), 1),
     Msg("playback-stop", Null, Undefined),
     Msg("playback-pause", Null, Undefined),
     Msg("playback-resume", Null, Undefined)}

InitViewer ==
    /\ IdleIngest
    /\ InitPlayback
    /\ tbIndex = ViewerStore
    /\ poolOut = 0

NextViewer ==
    \/ \E c \in Viewers, msg \in ViewerMessages :
          /\ Rejection(msg) # ""
          /\ Len(wsErrors[c]) < MaxRejected
          /\ ViewerMessage(c, msg)
    \/ \E c \in Viewers, msg \in ViewerMessages :
          /\ Rejection(msg) = ""
          /\ msg.action = "playback-start" => sess = <<>>
          /\ ViewerMessage(c, msg)
    \/ \E c \in Viewers : WsCloses(c)
    \/ \E c \in Viewers : WsCloseEvent(c)
    \/ HealthySteps

SpecViewer == InitViewer /\ [][NextViewer]_vars

\* the messages C19 is about: not JSON, an unknown action, a playback-start
\* without start time, year, month, day or camera
BadMessages ==
    {NotJSON, Msg("zoom", Null, Undefined),
     Msg("playback-start", Null, 1),
     Msg("playback-start", [StartAt(2) EXCEPT !.year = Undefined], 1),
     Msg("playback-start", [StartAt(2) EXCEPT !.month = Undefined], 1),
     Msg("playback-start", [StartAt(2) EXCEPT !.day = Undefined], 1),
     Msg("playback-start", StartAt(2), Undefined)}

\* C19: the handler answers a bad message with exactly one error event to
\* its sender and changes nothing else: not the registry, not the sender's
\* current session, no session (a running one keeps streaming), so that what
\* the connection sends next is handled as if the bad message had not come.
C19_BadMessageRejected ==
    [][ \A c \in Viewers, msg \in BadMessages :
          ViewerMessage(c, msg) =>
            /\ Len(wsErrors'[c]) = Len(wsErrors[c]) + 1
            /\ Take(wsErrors'[c], Len(wsErrors[c])) = wsErrors[c]
            /\ wsErrors'[c][Len(wsErrors'[c])].type = "error"
            /\ \A d \in Conns \ {c} : wsErrors'[d] = wsErrors[d]
            /\ UNCHANGED <<playbackSessions, sess, activeSession, wsOpen, closeHandled,
                           extVars, otherVars>> ]_vars

\* a viewer that was answered MaxRejected error events, not all of one kind,
\* and whose session is still registered, active and streaming
C19_Witness ==
    \E c \in Viewers :
        /\ Len(wsErrors[c]) = MaxRejected
        /\ wsErrors[c][1].message # wsErrors[c][Len(wsErrors[c])].message
        /\ activeSession[c] # 0
        /\ playbackSessions[1] = activeSession[c]
        /\ sess[activeSession[c]].active /\ sess[activeSession[c]].workerRunning
        /\ Len(SentFrames(sess[activeSession[c]])) >= 2

(***************************************************************************)
(* Claims about pause and resume, under SpecViewer.                        *)
(***************************************************************************)
\* the queue entry a playback frame was made from
EntryOf(m) == [filePath |-> m.filePath, timestamp |-> m.timestamp]

\* the entries of session r in the order of their delivery: those sent, the
\* one being read, those waiting in the prefetch queue
DeliveryOrder(r) ==
    [i \in 1..Len(SentFrames(r)) |-> EntryOf(SentFrames(r)[i])]
        \o (IF r.curFrame = Null THEN <<>> ELSE <<r.curFrame>>)
        \o r.fileQueue

\* a step that changes the paused flag of session s changes nothing else of it
OnlyTheFlag(s) ==
    sess'[s].paused # sess[s].paused => sess'[s] = [sess[s] EXCEPT !.paused = sess'[s].paused]

\* in a step from a state in which session s is paused, its loop takes no
\* entry from the prefetch queue
QueueHeld(s) ==
    sess[s].paused =>
        /\ IsPrefix(sess[s].fileQueue, sess'[s].fileQueue)
        /\ sess'[s].curFrame # Null => sess'[s].curFrame = sess[s].curFrame

\* while its loop runs, session s has lost, repeated and reordered nothing of
\* what it fetched
NothingLost(s) ==
    sess'[s].workerRunning => DeliveryOrder(sess'[s]) = QueueEntries(sess'[s].fetched)

\* C20 as stated: while a session is paused no frame of it is sent; pausing
\* and resuming change only the flag; the paused loop takes nothing from the
\* prefetch queue; nothing fetched is lost, repeated or reordered.
C20_NoFrameWhilePaused ==
    [][ \A s \in Sessions :
          /\ sess[s].paused => ~FrameSent(s)
          /\ OnlyTheFlag(s)
          /\ QueueHeld(s)
          /\ NothingLost(s) ]_vars

\* C20, amended: the loop looks at the flag before it takes the next entry,
\* so the one frame whose file was being read when the pause came is still
\* sent, and no other; pausing and resuming change only the flag; the paused
\* loop takes nothing from the prefetch queue; nothing fetched is lost,
\* repeated or reordered, so that delivery goes on after the resume with the
\* entry that was at the head of the queue when the pause came.
C20_PauseHoldsQueue ==
    [][ \A s \in Sessions :
          /\ (sess[s].paused /\ FrameSent(s)) =>
                /\ sess[s].wpc = "reading"
                /\ SentFrames(sess'[s]) =
                     Append(SentFrames(sess[s]), PlaybackFrame(sess[s]))
                /\ sess'[s].wpc = "sleep"
          /\ OnlyTheFlag(s)
          /\ QueueHeld(s)
          /\ NothingLost(s) ]_vars

\* a paused session whose loop has come round, found the flag and sleeps on a
\* queue that is not empty, after frames were sent
C20_Witness ==
    \E s \in Sessions :
        /\ sess[s].paused /\ sess[s].active /\ sess[s].workerRunning
        /\ sess[s].wpc = "sleep"
        /\ sess[s].fileQueue # <<>>
        /\ Len(SentFrames(sess[s])) >= 1
        /\ ~sess[s].fetching

(***************************************************************************)
(* Claims about the storage worker, under SpecPipe.                        *)
(***************************************************************************)
\* the timestamps of the frames that have arrived
ArrivedStamps == {StampOf(n) : n \in 1..clock}

\* C21: every file of the blob store has the name made of the timestamp of a
\* frame that arrived (yy MM dd hh mm ss _ mmm), whichever way the frame came
\* in, and every write that succeeded made a file of its own.
C21_NamedFromTimestamp ==
    /\ blobStore \subseteq {ImgPath(makeFilenameFromTimestamp(t)) : t \in ArrivedStamps}
    /\ Cardinality(blobStore) = totalFilesSaved

(***************************************************************************)
(* Claims about the session registry, under SpecSess.                      *)
(***************************************************************************)
\* C22: in every reachable state and for every camera, stopPlayback called
\* for a camera without registry entry changes nothing; called for a camera
\* with an entry it makes that session inactive, changes nothing else of it,
\* removes the entry, and leaves every other entry and every other session
\* as they were; a second call right after the first changes nothing.
C22_StopIdempotent ==
    \A cam \in Cams :
        LET st0 == [reg |-> playbackSessions, ss |-> sess]
            st1 == StopRegistered(st0, cam)
            st2 == StopRegistered(st1, cam)
            s == playbackSessions[cam]
        IN  /\ st2 = st1
            /\ s = 0 => st1 = st0
            /\ s # 0 =>
                  /\ st1.reg = [playbackSessions EXCEPT ![cam] = 0]
                  /\ st1.ss[s] = [sess[s] EXCEPT !.active = FALSE]
                  /\ Len(st1.ss) = Len(sess)
                  /\ \A i \in Sessions \ {s} : st1.ss[i] = sess[i]

\* camera 1 has a registered, active session, and another session of the
\* same camera is active as well
C22_Witness ==
    /\ playbackSessions[1] # 0
    /\ sess[playbackSessions[1]].active
    /\ \E i \in Sessions \ {playbackSessions[1]} : sess[i].active /\ sess[i].camNo = 1

\* C23: a camera's registry entry is an active session of that camera, and
\* every active session whose pacing loop runs is the registry entry of its
\* camera (so no cleanup of an older session has removed it).
C23_RegistryOfActive ==
    /\ \A cam \in Cams :
          playbackSessions[cam] # 0 =>
              /\ sess[playbackSessions[cam]].active
              /\ sess[playbackSessions[cam]].camNo = cam
    /\ \A s \in Sessions :
          (sess[s].active /\ sess[s].workerRunning) => playbackSessions[sess[s].camNo] = s

(***************************************************************************)
(* Claims about write failures and the drain, under SpecPipe.              *)
(***************************************************************************)
\* the write of the current task ends in this step without a file saved
WriteFailed == curTask # Null /\ curTask' # curTask /\ totalFilesSaved' = totalFilesSaved

\* C24: a failed write drops its task and only it: nothing is forwarded to
\* the index queue, no file appears, the task is not queued again, and the
\* worker goes on with the head of the queue.  An Index Task is forwarded only
\* in the step in which the write of its task succeeds, so that every record
\* handed to the index queue, and every row of the store, names a written file.
C24_FailedWriteDropsOnlyTask ==
    [][ /\ WriteFailed =>
             /\ handedOver' = handedOver
             /\ dbInsertQueue' = dbInsertQueue /\ flights' = flights
             /\ blobStore' = blobStore
             /\ \A i \in 1..Len(storageQueue') : storageQueue'[i] # curTask
             /\ storageQueue # <<>> =>
                   /\ curTask' = Head(storageQueue)
                   /\ storageQueue' = Tail(storageQueue)
                   /\ isStorageProcessing'
        /\ handedOver' # handedOver =>
             /\ curTask # Null
             /\ handedOver' =
                  Append(handedOver, [camNo |-> curTask.camNo, timestamp |-> curTask.timestamp,
                                      imgPath |-> ImgPath(curTask.filename)])
             /\ totalFilesSaved' = totalFilesSaved + 1
             /\ ImgPath(curTask.filename) \in blobStore'
        /\ \A k \in 1..Len(handedOver') : handedOver'[k].imgPath \in blobStore'
        /\ \A k \in 1..Len(tbIndex') : tbIndex'[k].l_location \in blobStore' ]_vars

\* the first frame came over TCP into the empty queue and its write failed;
\* the second frame's file was written after it and its record is in the store
C24_Witness ==
    /\ broadcasts # <<>> /\ broadcasts[1].timestamp = StampOf(1)
    /\ ImgPath(<<1>>) \notin blobStore
    /\ curTask = Null /\ storageQueue = <<>>
    /\ ImgPath(<<2>>) \in blobStore
    /\ Len(handedOver) = 1
    /\ Len(tbIndex) = 1 /\ tbIndex[1].l_location = ImgPath(<<2>>)

(***************************************************************************)
(* SpecDrain: frames arrive over TCP and over POST /api/frames while the   *)
(* storage worker drains the queue; every write succeeds; the index queue  *)
(* only collects what the worker hands over.                               *)
(***************************************************************************)
NextDrain ==
    \/ TcpDelivery /\ UNCHANGED pbVars
    \/ PostArrives /\ UNCHANGED pbVars
    \/ StorageTick /\ UNCHANGED <<decVars, pbVars>>
    \/ WriteSucceeds /\ UNCHANGED <<decVars, pbVars>>

SpecDrain == InitPipe /\ [][NextDrain]_vars

\* a frame arrives in this step
Arrival == clock' = clock + 1

\* C25: a drain is in progress exactly while one write is awaited, and it
\* starts only when none is in progress.  An arrival appends at most its own
\* task and does not touch the drain; every other step leaves the queue alone
\* or takes its head, which becomes the task being written.  The task being
\* written is given up only with its record handed over (its file written),
\* and then the drain goes on with the head of the queue, or ends when the
\* queue is empty.  No record is handed over twice.
C25_OneDrainFifo ==
    [][ /\ isStorageProcessing' <=> curTask' # Null
        /\ (isStorageProcessing' /\ ~isStorageProcessing) =>
              /\ curTask = Null
              /\ curTask' = Head(storageQueue)
        /\ Arrival =>
              /\ \/ storageQueue' = storageQueue
                 \/ /\ Len(storageQueue') = Len(storageQueue) + 1
                    /\ Take(storageQueue', Len(storageQueue)) = storageQueue
                    /\ storageQueue'[Len(storageQueue')].timestamp = StampOf(clock')
              /\ UNCHANGED <<curTask, isStorageProcessing, handedOver>>
        /\ ~Arrival =>
              \/ storageQueue' = storageQueue
              \/ /\ storageQueue # <<>>
                 /\ storageQueue' = Tail(storageQueue)
                 /\ curTask' = Head(storageQueue)
        /\ (curTask # Null /\ curTask' # curTask) =>
              /\ Len(handedOver') = Len(handedOver) + 1
              /\ handedOver'[Len(handedOver')].timestamp = curTask.timestamp
              /\ ImgPath(curTask.filename) \in blobStore'
              /\ IF storageQueue # <<>>
                 THEN curTask' = Head(storageQueue) /\ isStorageProcessing'
                 ELSE curTask' = Null /\ ~isStorageProcessing'
        /\ \A i, j \in 1..Len(handedOver') :
              handedOver'[i].timestamp = handedOver'[j].timestamp => i = j ]_vars

\* the first drain awaits its first write and the queue is full again: a task
\* was enqueued while the drain was waiting
C25_Witness ==
    /\ isStorageProcessing /\ curTask # Null
    /\ handedOver = <<>> /\ totalFilesSaved = 0
    /\ Len(storageQueue) = STORAGE_QUEUE_MAX

(***************************************************************************)
(* SpecNameless: frames arrive over TCP, with or without the key filename  *)
(* in their metadata, while the storage worker drains the queue; a write   *)
(* succeeds or fails.  The interval timer keeps firing and every write     *)
(* comes to an end.                                                        *)
(***************************************************************************)
WriteEnds ==
    \/ WriteSucceeds /\ UNCHANGED <<decVars, pbVars>>
    \/ WriteFails /\ UNCHANGED <<decVars, pbVars>>

NextNameless ==
    \/ \E named \in BOOLEAN : TcpDeliveryOf(named) /\ UNCHANGED pbVars
    \/ StorageTick /\ UNCHANGED <<decVars, pbVars>>
    \/ WriteEnds

SpecNameless ==
    /\ InitPipe
    /\ [][NextNameless]_vars
    /\ WF_vars(StorageTick /\ UNCHANGED <<decVars, pbVars>>)
    /\ WF_vars(WriteEnds)

\* C26: whenever the storage queue holds a task or a drain is in progress,
\* there comes a state in which the queue is empty and the drain guard is
\* false again: every accepted task is removed, whatever its contents.
C26_EveryTaskRemoved ==
    [](  (storageQueue # <<>> \/ isStorageProcessing)
         => <>(storageQueue = <<>> /\ ~isStorageProcessing) )

IndexEnqueue == Len(handedOver') = Len(handedOver) + 1

FetchRunning(r) == r.fpc # "idle"

\* C29: a session has at most one index fetch in flight: the flag fetching
\* is set exactly while a fetch of the session runs, a fetch begins only in
\* a session that is active, not exhausted and has no fetch running, and a
\* fetch that ends by rows, by zero rows or by an error leaves the flag
\* cleared unless the loop began the next fetch in the same turn.
C29_SingleFlight ==
    [][\A s \in 1..Len(sess') :
         LET r2 == sess'[s]
         IN  /\ r2.fetching <=> FetchRunning(r2)
             /\ s <= Len(sess) =>
                   LET r == sess[s]
                   IN  /\ (~FetchRunning(r) /\ FetchRunning(r2)) =>
                             /\ r.active /\ ~r.finished /\ ~r.fetching
                             /\ r2.fpc = "connecting"
                       /\ (r.fpc = "connecting" /\ FetchRunning(r2)) =>
                             /\ r2.fpc \in {"connecting", "querying"}
                             /\ r2.totalRowsFetched = r.totalRowsFetched
                       /\ (r.fpc = "querying" /\ FetchRunning(r2)) =>
                             \/ r2.fpc = "querying" /\ r2.totalRowsFetched = r.totalRowsFetched
                             \/ /\ r2.fpc = "connecting"
                                /\ r2.totalRowsFetched > r.totalRowsFetched
                                /\ r2.active /\ ~r2.finished
                       /\ (r.fetchError \/ r.finished) => ~FetchRunning(r2)
             /\ s > Len(sess) => r2.active /\ ~r2.finished /\ r2.fpc = "connecting"
      ]_vars

\* a later fetch of a session failed after an earlier one had returned rows,
\* and the flag is clear
C29_Witness ==
    \E s \in 1..Len(sess) :
        /\ sess[s].fetchError /\ sess[s].totalRowsFetched > 0
        /\ ~sess[s].fetching /\ sess[s].finished


(***************************************************************************)
(* The watermarks of the prefetch queue (index.js:137-141, :1069-1073,     *)
(* :1037-1053).                                                            *)
(***************************************************************************)
\* a step in which the pacing loop of a session that had no fetch running
\* begins one found the queue at or below the low watermark, no fetch in
\* flight and the index not exhausted
FetchOnlyWhenLow ==
    \A s \in 1..Len(sess) :
        (~FetchRunning(sess[s]) /\ FetchRunning(sess'[s])) =>
            /\ Len(sess[s].fileQueue) <= PLAYBACK_QUEUE_LOW
            /\ ~sess[s].fetching /\ ~sess[s].finished

\* the prefetch queue of every session holds at most PLAYBACK_QUEUE_HIGH entries
QueueAtMostHigh ==
    \A s \in 1..Len(sess) : Len(sess[s].fileQueue) <= PLAYBACK_QUEUE_HIGH

\* the first half of C30 on its own: the loop begins a fetch only at or
\* below the low watermark, with no fetch in flight and the index not exhausted
FetchTriggerRespected == [][FetchOnlyWhenLow]_vars

\* C30: the pacing loop starts a fetch only when the prefetch queue holds at
\* most PLAYBACK_QUEUE_LOW entries, no fetch is in flight and the index is
\* not exhausted, and in every reachable state the prefetch queue of a
\* session holds at most PLAYBACK_QUEUE_HIGH entries.
C30_QueueWithinWatermarks == [][FetchOnlyWhenLow /\ QueueAtMostHigh']_vars

(***************************************************************************)
(* The notices that end a session (index.js:1008-1030, :1054-1057,         *)
(* :1075-1097, :1180-1200).                                                *)
(***************************************************************************)
\* the index of the session r is exhausted: a fetch of r returned zero rows
\* (index.js:1008-1009), as opposed to a fetch that failed (index.js:1054-1056)
Exhausted(r) == r.finished /\ ~r.fetchError

\* playback-complete was sent to the viewer of r, and nothing of kind type after it
NothingAfterComplete(r, type) ==
    \A i \in 1..Len(r.sent) : \A j \in 1..Len(r.sent) :
        (r.sent[i].type = "playback-complete" /\ j > i) => r.sent[j].type # type

\* the other parts of C31: playback-complete is sent with the prefetch queue
\* empty and the session marked finished, at most once, and no frame after it
CompleteOnceAtEmptyQueue ==
    \A s \in 1..Len(sess) :
        /\ NoticesOf(sess[s], "playback-complete") <= 1
        /\ NothingAfterComplete(sess[s], "playback")
        /\ NoticesOf(sess[s], "playback-complete") = 1 =>
              sess[s].fileQueue = <<>> /\ sess[s].finished

\* C31: playback-complete is sent for a session only when its prefetch queue
\* is empty and the index is exhausted, a fetch having returned zero rows; it
\* is sent at most once per session and no frame of the session follows it.
C31_CompleteOnlyWhenExhausted ==
    /\ CompleteOnceAtEmptyQueue
    /\ \A s \in 1..Len(sess) :
          NoticesOf(sess[s], "playback-complete") = 1 => Exhausted(sess[s])

(***************************************************************************)
(* SpecEnd: the session of SpecPlay over an index that has no row of       *)
(* camera 1 from the start time on (rows before it, rows of camera 2       *)
(* only), or one row, or three: the first fetch, or a later one, returns   *)
(* zero rows.                                                              *)
(***************************************************************************)
EndStores ==
    { << IndexRow(1, 1000, 1), IndexRow(2, 2000, 6) >>,
      << IndexRow(1, 2000, 2) >>,
      << IndexRow(1, 2000, 2), IndexRow(1, 2007, 4), IndexRow(1, 61000, 5) >> }

InitEnd ==
    /\ IdleIngest
    /\ InitPlayback
    /\ tbIndex \in EndStores
    /\ poolOut = 0

SpecEnd == InitEnd /\ [][NextPlay]_vars

\* in this step the query of a fetch of session s returned zero rows
ZeroRows(s) ==
    /\ sess[s].fpc = "querying" /\ ~sess[s].finished
    /\ sess'[s].finished /\ ~sess'[s].fetchError

\* C32: when the first fetch of a session returns zero rows, the session is
\* marked finished and playback-no-data is the next message to its viewer
\* (whose connection is open); when a later fetch returns zero rows, the
\* session is marked finished and nothing is sent.
C32_NoDataOnFirstFetchOnly ==
    [][\A s \in 1..Len(sess) :
         ZeroRows(s) =>
           LET r == sess[s]
               q == sess'[s]
           IN  /\ q.finished /\ ~q.fetching
               /\ q.fileQueue = r.fileQueue /\ q.totalRowsFetched = r.totalRowsFetched
               /\ (r.totalRowsFetched = 0 /\ wsOpen[r.ws]) =>
                     /\ Len(q.sent) > Len(r.sent)
                     /\ q.sent[Len(r.sent) + 1].type = "playback-no-data"
                     /\ NoticesOf(q, "playback-no-data") = 1
               /\ (r.totalRowsFetched = 0 /\ ~wsOpen[r.ws]) => q.sent = r.sent
               /\ r.totalRowsFetched > 0 => q.sent = r.sent
      ]_vars

\* a later fetch of a session returned zero rows after an earlier one had
\* returned rows, and the viewer, still connected, got no playback-no-data
C32_Witness ==
    \E s \in 1..Len(sess) :
        /\ Exhausted(sess[s]) /\ sess[s].totalRowsFetched > 0
        /\ wsOpen[sess[s].ws]
        /\ NoticesOf(sess[s], "playback-no-data") = 0

\* the notices that tell a viewer that its session has ended
TerminalNotices == {"playback-no-data", "playback-complete", "playback-no-frames"}

\* the number of terminal notices sent to the viewer of the session r
TerminalCount(r) ==
    Cardinality({i \in 1..Len(r.sent) : r.sent[i].type \in TerminalNotices})

\* every session has sent at most one terminal notice
OneTerminalNotice == \A s \in 1..Len(sess) : TerminalCount(sess[s]) <= 1

\* no step sends a terminal notice for a session that was inactive before it
NoNoticeAfterStop ==
    \A s \in 1..Len(sess) :
        ~sess[s].active => TerminalCount(sess'[s]) = TerminalCount(sess[s])

\* the second half of C33 on its own
NoNoticeOnceStopped == [][NoNoticeAfterStop]_vars

\* C33: over the whole life of a session at most one terminal notice
\* (playback-no-data, playback-complete or playback-no-frames) is sent to its
\* viewer, and none is sent once the session was stopped or replaced.
C33_NotifiedOnce == [][OneTerminalNotice' /\ NoNoticeAfterStop]_vars

(***************************************************************************)
(* The viewer's connection leaves the open state (index.js:338-347,        *)
(* :1146-1155).                                                            *)
(***************************************************************************)
\* no step sends anything for a session whose viewer's connection is not open
SilentOnceClosed ==
    \A s \in 1..Len(sess) : ~wsOpen[sess[s].ws] => sess'[s].sent = sess[s].sent

\* in this step a read of session s succeeded (no failure was counted)
ReadDone(s) ==
    /\ sess[s].wpc = "reading"
    /\ sess'[s].curFrame # sess[s].curFrame
    /\ sess'[s].consecutiveErrors <= sess[s].consecutiveErrors

\* a frame that is ready for a connection that is not open ends the session
ClosedSendEndsLoop ==
    \A s \in 1..Len(sess) :
        (ReadDone(s) /\ ~wsOpen[sess[s].ws]) =>
            ~sess'[s].active /\ ~sess'[s].workerRunning

\* in this step the close event of connection c is handled
CloseEventOf(c) == ~closeHandled[c] /\ closeHandled'[c]

\* the close event of a connection leaves the connection's session stopped:
\* inactive, or with its pacing loop already ended
CloseStopsOwn ==
    \A c \in Conns :
        (CloseEventOf(c) /\ activeSession[c] # 0) =>
            \/ ~sess'[activeSession[c]].active
            \/ ~sess'[activeSession[c]].workerRunning

\* the parts of C34 about sending
ClosedConnectionGetsNothing == [][SilentOnceClosed /\ ClosedSendEndsLoop]_vars

\* C34: once the viewer's connection is not open, the session sends nothing
\* more to it; a frame that is ready to be sent on a connection that is not
\* open sets the session inactive and ends its pacing loop; and the close
\* event of a connection stops the session of that connection.
C34_ClosedViewerEndsSession ==
    [][SilentOnceClosed /\ ClosedSendEndsLoop /\ CloseStopsOwn]_vars

(***************************************************************************)
(* SpecLive: a camera delivers frames while two viewers, connected from    *)
(* the start, start and stop one playback session and disconnect.          *)
(***************************************************************************)
NextLive ==
    \/ TcpDelivery /\ UNCHANGED pbVars
    \/ ViewerSteps(Conns, {1}, {StartAt(2)}, 1)
    \/ HealthySteps

SpecLive == InitSess /\ [][NextLive]_vars

\* in this step broadcastFrameBinary was called, once
BroadcastStep == Len(broadcasts') = Len(broadcasts) + 1

\* C35: a call of broadcastFrameBinary sends one and the same message, the
\* live frame of the call, exactly once to every viewer connection in the
\* open state and nothing to a connection in any other state; with no viewer
\* connected it sends nothing; and no other step sends a live frame.
C35_BroadcastToOpenViewers ==
    [][/\ BroadcastStep =>
            LET call == broadcasts'[Len(broadcasts')]
            IN  \A c \in Conns :
                    liveSent'[c] = IF wsOpen[c]
                                   THEN Append(liveSent[c], LiveFrame(call))
                                   ELSE liveSent[c]
       /\ (BroadcastStep /\ \A c \in Conns : closeHandled[c]) => liveSent' = liveSent
       /\ ~BroadcastStep => liveSent' = liveSent
      ]_vars

\* one frame was broadcast while connection 1 was open and connection 2 was
\* closing, its close event not yet handled: only connection 1 got it
C35_Witness ==
    /\ Len(broadcasts) = 1
    /\ liveSent[1] = << LiveFrame(broadcasts[1]) >>
    /\ liveSent[2] = <<>>
    /\ ~wsOpen[2] /\ ~closeHandled[2]

\* the connection c has an active playback session
InPlayback(c) == activeSession[c] # 0 /\ sess[activeSession[c]].active

\* no step sends a live frame to a connection that has an active playback session
NoLiveDuringPlayback ==
    \A c \in Conns : InPlayback(c) => liveSent'[c] = liveSent[c]

\* no step sends a playback frame of another session to a connection that
\* has an active playback session
OnlyOwnSessionFrames ==
    \A c \in Conns : \A s \in 1..Len(sess) :
        (InPlayback(c) /\ sess[s].ws = c /\ s # activeSession[c]) =>
            SentFrames(sess'[s]) = SentFrames(sess[s])

\* the part of C36 about playback frames on its own
PlaybackFramesOfOwnSession == [][OnlyOwnSessionFrames]_vars

\* C36: a viewer connection that has an active playback session is sent
\* playback frames of that session only, and no live frame.
C36_LiveToLiveViewersOnly == [][NoLiveDuringPlayback /\ OnlyOwnSessionFrames]_vars

(***************************************************************************)
(* SpecTwo: two camera connections, each sending MaxUnits well-formed      *)
(* units of its own camera with payload bytes of its own, cut into         *)
(* deliveries at arbitrary places and interleaved in any order.            *)
(***************************************************************************)
\* the units of camera cam: unit i carries the timestamp and the payload bytes of base + i
CamUnits(cam, base, n) ==
    [i \in 1..MaxUnits |->
        [meta |-> [camNo |-> cam, timestamp |-> base + i, size |-> n, filename |-> <<5>>],
         image |-> PayloadOf(base + i, n)]]

InitTwo ==
    /\ units \in {CamUnits(1, 0, n) : n \in 1..MaxPayload}
    /\ wire = WireOf(units)
    /\ peer \in {FreshSocket(WireOf(us), us) :
                    us \in {CamUnits(2, MaxUnits + 2, n) : n \in 1..MaxPayload}}
    /\ sawPartial = FALSE
    /\ InitDecoder
    /\ InitPipeline
    /\ InitPlayback
    /\ EmptyStore

NextTwo ==
    \/ \E k \in 1..Len(wire) :
         SocketData(k) /\ UNCHANGED <<clock, stoVars, dbVars, extVars, histVars, pbVars>>
    \/ \E k \in 1..Len(peer.wire) :
         PeerData(k) /\ UNCHANGED <<clock, stoVars, dbVars, extVars, histVars, pbVars>>

SpecTwo == InitTwo /\ [][NextTwo]_vars

\* the elements of s at the places in I, in order
SubAt(s, I) ==
    [k \in 1..Cardinality(I) |-> s[CHOOSE i \in I : Cardinality({j \in I : j < i}) = k - 1]]

\* the frames emitted so far for the first connection, and for the second
EmittedByFirst == SubAt(broadcasts, (1..Len(broadcasts)) \ peer.at)
EmittedBySecond == SubAt(broadcasts, peer.at)

\* the bytes of the units us that have arrived when w is still in flight
ReceivedOn(us, w) == Take(WireOf(us), Len(WireOf(us)) - Len(w))

\* the frames a connection emits that is fed bytes alone
FedAlone(bytes) ==
    BroadcastCalls(DecodeLoop([buffer |-> bytes, waitingForMetadata |-> TRUE,
                               metadataLength |-> 0, metadata |-> Null, frameCount |-> 0,
                               threw |-> FALSE, out |-> <<>>]).out)

\* every byte of the images of the frames fs is a payload byte of the units us
AssembledFrom(fs, us) ==
    \A k \in 1..Len(fs) : \A j \in 1..Len(fs[k].image) :
        \E i \in 1..Len(us) : \E m \in 1..Len(us[i].image) : fs[k].image[j] = us[i].image[m]

\* C37: for every interleaving of deliveries on two camera connections, the
\* frames emitted for a connection are assembled only from bytes received
\* on that connection, and they are the frames that the connection emits
\* when it is fed the same bytes alone.
C37_ConnectionsDecodeApart ==
    /\ AssembledFrom(EmittedByFirst, units)
    /\ AssembledFrom(EmittedBySecond, peer.units)
    /\ EmittedByFirst = FedAlone(ReceivedOn(units, wire))
    /\ EmittedBySecond = FedAlone(ReceivedOn(peer.units, peer.wire))

\* both connections have emitted a frame, the second one first, and both
\* hold the beginning of their next unit
C37_Witness ==
    /\ Len(broadcasts) = 2 /\ peer.at = {1}
    /\ ~waitingForMetadata /\ buffer # <<>>
    /\ ~peer.waitingForMetadata /\ peer.buffer # <<>>

(***************************************************************************)
(* SpecPool: the index flushes of the frames a camera delivers and the     *)
(* fetches of one playback session draw on the one pool (index.js:183-191, *)
(* :416, :896); the index starts empty and gets its rows from the flushes. *)
(***************************************************************************)
NextPool ==
    \/ clock < DB_BATCH_SIZE /\ TcpDelivery /\ UNCHANGED pbVars
    \/ StorageTick /\ UNCHANGED <<decVars, pbVars>>
    \/ WriteSucceeds /\ UNCHANGED <<decVars, pbVars>>
    \/ FlushTimerFires /\ UNCHANGED <<procVars, decVars, ingVars, stoVars, pbVars>>
    \/ RetryTimerFires /\ UNCHANGED <<procVars, decVars, ingVars, stoVars, pbVars>>
    \/ \E i \in 1..Len(flights) :
          FlushGotConnection(i) /\ UNCHANGED <<procVars, decVars, ingVars, stoVars, pbVars>>
    \/ \E i \in 1..Len(flights) :
          FlushConnectionFails(i) /\ UNCHANGED <<procVars, decVars, ingVars, stoVars, pbVars>>
    \/ \E i \in 1..Len(flights) :
          FlushQuerySucceeds(i) /\ UNCHANGED <<procVars, decVars, ingVars, stoVars, pbVars>>
    \/ \E i \in 1..Len(flights) :
          FlushQueryFails(i) /\ UNCHANGED <<procVars, decVars, ingVars, stoVars, pbVars>>
    \/ ViewerSteps({1}, {1}, {StartAt(1)}, 1)
    \/ FetchSteps
    \/ WorkerSteps

SpecPool == InitPipe /\ [][NextPool]_vars

\* the flushes and the fetches that hold a connection: between the return of
\* pool.getConnection() and the finally
Holders ==
    Cardinality({i \in 1..Len(flights) : flights[i].phase = "querying"}) +
    Cardinality({s \in 1..Len(sess) : sess[s].fpc = "querying"})

\* C38: every connection that a flush or a fetch obtained from the pool is
\* given back exactly once on every path: the number of checked-out
\* connections is the number of flushes and fetches whose query is pending,
\* never exceeds the pool limit, and is 0 whenever no flush and no fetch is
\* in progress.
C38_PoolBalanced ==
    /\ poolOut = Holders
    /\ poolOut <= POOL_LIMIT
    /\ (flights = <<>> /\ \A s \in 1..Len(sess) : ~FetchRunning(sess[s])) => poolOut = 0

\* a flush and a fetch hold a connection each, after an earlier flush failed
\* in its query and gave its connection back
C38_Witness ==
    /\ poolOut = 2
    /\ \E i \in 1..Len(flights) : flights[i].phase = "querying"
    /\ \E s \in 1..Len(sess) : sess[s].fpc = "querying"
    /\ failedOnce # {} /\ retryTimers = 0

(***************************************************************************)
(* The layout of the outbound frame message, read back as a viewer reads   *)
(* it.                                                                     *)
(***************************************************************************)
\* the message split by its layout: the first four bytes as a big-endian
\* length n, the next n bytes as the header, the rest as the payload; a
\* slice past the end of the message stops at its end
SplitFrame(msg) ==
    LET n == IF 4 + readUInt32BE(msg) > Len(msg) THEN Len(msg) - 4 ELSE readUInt32BE(msg)
        header == SubSeq(msg, 5, 4 + n)
        tag == IF Len(header) >= 2 THEN SubSeq(header, 3, Len(header)) ELSE <<>>
    IN  [camNo |-> IF Len(header) >= 1 THEN header[1] ELSE Null,
         timestamp |-> IF Len(header) >= 2 THEN header[2] ELSE Null,
         type |-> IF tag = <<108, 105, 118, 101>> THEN "live"
                  ELSE IF tag = <<112, 108, 97, 121, 98, 97, 99, 107>> THEN "playback"
                  ELSE "other",
         image |-> SubSeq(msg, 5 + n, Len(msg))]

\* C39: every outbound frame message is the 4-byte big-endian length of its
\* header, the header with camNo, timestamp and type, and the payload bytes
\* unchanged: split by that layout, a live frame gives back the camera, the
\* timestamp and the image of a broadcast call with type 'live', and a
\* playback frame gives back the session's camera, the queue entry's
\* timestamp and the file's bytes with type 'playback'.
C39_FrameLayoutRoundTrip ==
    /\ \A c \in Conns : \A k \in 1..Len(liveSent[c]) :
          /\ Len(liveSent[c][k]) >= 4
          /\ \E i \in 1..Len(broadcasts) :
                SplitFrame(liveSent[c][k]) =
                    [camNo |-> broadcasts[i].camNo, timestamp |-> broadcasts[i].timestamp,
                     type |-> "live", image |-> broadcasts[i].image]
    /\ \A s \in 1..Len(sess) : \A k \in 1..Len(sess[s].sent) :
          sess[s].sent[k].type = "playback" =>
              SplitFrame(sess[s].sent[k].payload) =
                  [camNo |-> sess[s].camNo, timestamp |-> sess[s].sent[k].timestamp,
                   type |-> "playback", image |-> sess[s].sent[k].filePath.rel.name]

\* a viewer connection was sent a live frame and a playback frame of its session
C39_Witness ==
    \E s \in 1..Len(sess) :
        /\ SentFrames(sess[s]) # <<>>
        /\ liveSent[sess[s].ws] # <<>>

====
